---- MODULE Spec2Model ----
(***************************************************************************)
(* gh-pulse: the event ingestion-and-processing pipeline.                  *)
(*                                                                         *)
(*   SpecProc  the processor (services/processor/src/consumer.py, main.py):*)
(*             consume -> score -> buffer -> transactional flush -> commit *)
(*             of the queue offsets, with storage errors, queue errors and *)
(*             operator cancellation.                                      *)
(*   SpecPoll  the poller (services/ingestion/src/poller.py, main.py):     *)
(*             fetch with retry -> dedup -> publish, with credential       *)
(*             rotation and the conditional-fetch token.                   *)
(*   SpecProcCrash  the processor killed and started again, resuming at    *)
(*             the committed offset.                                       *)
(*   SpecPollPools, SpecPollWide  the poller with a credential pool of any *)
(*             size, and polling a feed large enough to overfill the       *)
(*             dedup window.                                               *)
(*   SpecPollStartup  the ingestion process from main on: configuration    *)
(*             validation, then the poller.                                *)
(*   SpecScore, SpecEvent  calls of the velocity score and of              *)
(*             _process_event on arguments drawn from bounded sets.        *)
(*   SpecRateLimit  the API's rate-limit middleware dispatching requests   *)
(*             as the clock advances.                                      *)
(*   SpecWebsocket  the API's websocket ConnectionManager: clients         *)
(*             connecting and leaving, and its broadcast loop tasks.       *)
(***************************************************************************)
EXTENDS Integers, Sequences, FiniteSets, TLC

\* ------------------------------------------------------------------ bounds
\* Messages the processor consumes in one run.
MaxMsgs == 4

\* Requests one client IP sends to the API.
MaxRequests == 5

\* Websocket clients that connect.
MaxClients == 3

\* Clock ticks in a second.
TicksPerSecond == 2

\* The limits the rate limiter is constructed with.
requests_per_second == 2

requests_per_minute == 3
\* config.batch_size (config.py:33 sets 100; BATCH_SIZE overrides it), scaled.
batch_size == 2

\* Times the processor is killed and started again (SpecProcCrash).
MaxCrashes == 1

\* Poll cycles the poller runs.
MaxPolls == 2
\* Events in one fetched page.
MaxPage == 2
\* The largest credential pool, len(config.github_tokens).
NumTokens == 2
\* self.max_seen_events (poller.py:43 sets 10000), scaled.
max_seen_events == 2
\* stop_after_attempt(3) of the retry decorator on _fetch_events.
MaxAttempts == 3

\* A missing / null JSON value.
NoVal == "None"

\* ------------------------------------------------------- processor: inputs
STAR_EVENTS == {"WatchEvent"}

\* The supported types the model's events use are members of the source's set.
SUPPORTED_EVENTS ==
    {"WatchEvent", "ForkEvent", "PushEvent", "IssuesEvent", "PullRequestEvent",
     "CreateEvent", "ReleaseEvent", "IssueCommentEvent"}

\* The length the spec and scripts/ingest_events.py cut a description to.
DescriptionLimit == 500

\* A description of 501 characters.
Fifty == "01234567890123456789012345678901234567890123456789"

LongDescription ==
    Fifty \o Fifty \o Fifty \o Fifty \o Fifty \o Fifty \o Fifty \o Fifty \o Fifty \o Fifty
        \o "x"

\* Messages on the topic: type, repo.id (0: missing or null), repo.name ("":
\* missing or null) and what payload.repository carries (language and
\* description NoVal and stargazers_count 0 stand for absent ones; the code
\* defaults the count to 0). The ForkEvent is a later look at repository 1:
\* renamed, another language, no description, a smaller star count. shape
\* tells the malformed events: "repo_null" carries "repo": null, "payload_null"
\* carries "payload": null (or "repository": null inside the payload).
\* created_at is one of CreatedAtValues. The WatchEvent of repository 2 carries
\* the long description.
ProcEvents ==
    { [type |-> "WatchEvent",  repo_id |-> 1, repo_name |-> "o/r1", language |-> "Go",
       description |-> "d1", stars |-> 200, shape |-> "ok",
       created_at |-> "2024-01-15T10:30:00Z"],
      [type |-> "PushEvent",   repo_id |-> 1, repo_name |-> "o/r1", language |-> NoVal,
       description |-> NoVal, stars |-> 0, shape |-> "ok", created_at |-> NoVal],
      [type |-> "ForkEvent",   repo_id |-> 1, repo_name |-> "n/r1", language |-> "Rust",
       description |-> NoVal, stars |-> 100, shape |-> "ok", created_at |-> "not-a-date"],
      [type |-> "WatchEvent",  repo_id |-> 2, repo_name |-> "o/r2", language |-> NoVal,
       description |-> LongDescription, stars |-> 5, shape |-> "ok",
       created_at |-> "#1705314600"],
      [type |-> "GollumEvent", repo_id |-> 1, repo_name |-> "o/r1", language |-> "Go",
       description |-> "d1", stars |-> 1000, shape |-> "ok",
       created_at |-> "2024-01-15T10:30:00Z"],
      [type |-> "WatchEvent",  repo_id |-> 0, repo_name |-> "o/r1", language |-> NoVal,
       description |-> NoVal, stars |-> 0, shape |-> "ok",
       created_at |-> "2024-01-15T10:30:00Z"],
      [type |-> "PushEvent",   repo_id |-> 1, repo_name |-> "",     language |-> NoVal,
       description |-> NoVal, stars |-> 0, shape |-> "ok",
       created_at |-> "2024-01-15T10:30:00Z"],
      [type |-> "WatchEvent",  repo_id |-> 0, repo_name |-> "",     language |-> NoVal,
       description |-> NoVal, stars |-> 0, shape |-> "repo_null",
       created_at |-> "2024-01-15T10:30:00Z"],
      [type |-> "PushEvent",   repo_id |-> 1, repo_name |-> "o/r1", language |-> NoVal,
       description |-> NoVal, stars |-> 0, shape |-> "payload_null",
       created_at |-> "2024-01-15T10:30:00Z"] }

\* "created_at" values: absent or null (NoVal), the empty string, two timestamps
\* as GitHub and as Python write them, a string that is no timestamp, and a
\* JSON number ("#..." stands for a value that is no string).
CreatedAtValues ==
    {NoVal, "", "2024-01-15T10:30:00Z", "2024-01-15T10:30:00+00:00", "not-a-date",
     "#1705314600"}

\* --------------------------------------------------------- poller: inputs
\* Event ids; 0 stands for a missing, null or empty id.
EventIds == 1..4

\* The ids of the events the upstream serves in SpecPoll, and the larger feed of
\* SpecPollWide, whose pages can overfill the dedup window.
FeedIds == 1..3

WideFeedIds == EventIds

\* The upstream's events are immutable: an id fixes the event. Ids 2, 5, ...
\* have an unsupported type, ids 3, 6, ... lack the repository id.
FeedEvent(id) ==
    [id |-> id,
     type |-> IF id % 3 = 2 THEN "GollumEvent" ELSE "WatchEvent",
     repo_id |-> IF id % 3 = 0 /\ id # 0 THEN 0 ELSE 1]

\* The response bodies: lists of up to MaxPage events of a feed serving ids.
Pages(ids) == UNION {[1..n -> {FeedEvent(id) : id \in {0} \cup ids}] : n \in 0..MaxPage}

\* ETag response header values; NoVal when the response carries none.
ETagHeaders == {NoVal, "e1", "e2"}

VARIABLES
    \* ---- poller (GitHubEventPoller and the process around it)
    feed_ids,           \* the ids of the events the upstream serves
    tokens_len,         \* len(self.tokens): the size of the credential pool
    insert_order,       \* the ids of the window in the order _dedupe_events added them
    p_pc,               \* where run() is: "idle", "fetching", "publishing", "closing", "exited"
    current_token_idx,  \* self.current_token_idx
    etag,               \* self.etag
    seen_event_ids,     \* self.seen_event_ids
    attempt,            \* the retry decorator's attempt number in this cycle
    request,            \* the request in flight (last sent): credential and If-None-Match
    to_publish,         \* the rest of new_events in poll_once's publish loop
    published,          \* the ids of the events sent to the topic
    poll_count,         \* run's poll_count
    last_status,        \* how the last finished cycle ended
    events_count,       \* what poll_once last returned
    cycle_start,        \* credential index and token when the cycle began
    cycle_hdr,          \* the latest ETag header received in the cycle
    cycle_published,    \* messages sent in the cycle
    cycle_suppressed,   \* events of the cycle's page with an id that were not reported new
    net_failures,       \* attempts of the cycle in which requests.get raised
    new_count,          \* event id -> times reported new since it was last evicted
    p_exc,              \* the exception that ended run's loop
    p_exit_code,        \* the poller process's exit status, -1 while it runs
    kafka_bootstrap_servers,    \* config.kafka_bootstrap_servers
    producer,           \* self.producer: "none", "open", "closed"
    unflushed,          \* the messages sent that no flush has waited for yet
    flushed             \* the ids of the events whose message a flush has waited for

pollVars ==
    << feed_ids, tokens_len, insert_order, p_pc, current_token_idx, etag, seen_event_ids, attempt, request, to_publish,
       published, poll_count, last_status, events_count, cycle_start, cycle_hdr,
       cycle_published, cycle_suppressed, net_failures, new_count, p_exc, p_exit_code,
       kafka_bootstrap_servers, producer, unflushed, flushed >>

\* The producer and what it holds.
prodVars == << producer, unflushed, flushed >>

VARIABLES
    \* ---- processor (GitHubEventProcessor and the process around it)
    pc,                 \* where run() is: "pull", "flush", "commit_offsets", "final", "close", "exited"
    f_pc,               \* where _flush_to_db is: "none", "upsert", "insert", "commit", "clear"
    f_ctx,              \* which call of _flush_to_db: "none", "mid", "end", "final"
    events_buffer,      \* self.events_buffer
    repos_buffer,       \* self.repos_buffer: repo_id -> repo info
    repo_stars_cache,   \* self.repo_stars_cache: repo_id -> stars
    events_processed,   \* process_batch's local counter
    consumed,           \* the consumer's position: messages taken from the topic
    committed_offset,   \* the offset consumer.commit() last stored
    accepted,           \* offsets of the consumed messages that _process_event accepted
    db_repos,           \* committed rows of table repositories: repo_id -> row
    db_metrics,         \* committed rows of table repo_metrics
    txn_repos,          \* the connection's view of repositories inside its open transaction
    txn_metrics,        \* the connection's view of repo_metrics inside its open transaction
    exc,                \* the exception propagating out of the loop: "none", "DbError", "KafkaError", "KeyboardInterrupt"
    exit_code,          \* the process's exit status, -1 while it runs
    logged,             \* the error lines written to the log, in order
    topic,              \* the messages of the topic the consumer has been handed, by offset
    last_flush,         \* the buffers of the flush that committed last
    crashes             \* times the process was killed and started again

procVars ==
    << pc, f_pc, f_ctx, events_buffer, repos_buffer, repo_stars_cache, events_processed,
       consumed, committed_offset, accepted, db_repos, db_metrics, txn_repos, txn_metrics,
       exc, exit_code, logged, topic, last_flush, crashes >>

VARIABLES
    \* ---- calls of the pure functions (SpecScore)
    score_args,         \* the arguments of two calls of _calculate_velocity_score
    score_results,      \* what the two calls returned, << >> before they are made
    \* ---- one call of _process_event on a fresh processor (SpecEvent)
    u_event,            \* the event handed over
    u_cache,            \* repo_stars_cache
    u_repos_buffer,     \* repos_buffer
    u_result,           \* "pending", then "None" or "record"
    u_record            \* << the record returned >>, << >> for None

unitVars == << score_args, score_results, u_event, u_cache, u_repos_buffer, u_result,
               u_record >>

VARIABLES
    \* ---- the API's RateLimitMiddleware, seen from one client IP
    rl_now,             \* time.time(), in ticks
    rl_requests,        \* self._requests[ip]: the timestamps of the admitted requests
    rl_last_cleanup,    \* self._last_cleanup
    rl_log              \* what dispatch answered: time, whether the path is exempt, status

rlVars == << rl_now, rl_requests, rl_last_cleanup, rl_log >>

VARIABLES
    \* ---- the API's websocket ConnectionManager and its clients
    ws_clients,         \* client -> "none", "open", "dead" (sends to it fail), "closed"
    active_connections, \* self.active_connections
    ws_running,         \* self._running
    ws_broadcast_task,  \* self._broadcast_task: the task created last, 0 for None
    ws_loops            \* the _broadcast_loop tasks created: where each one is

wsVars == << ws_clients, active_connections, ws_running, ws_broadcast_task, ws_loops >>

apiVars == << rlVars, wsVars >>

vars == << procVars, pollVars, unitVars, apiVars >>

\* --------------------------------------------------------- velocity score
\* Event types scored: the supported ones and one that is not in the weight table.
ScoreTypes == SUPPORTED_EVENTS \cup {"GollumEvent"}

\* Star counts scored.
ScoreStars == {0, 5, 10, 11, 100, 200, 1000, 100000}

\* Mutant of base_weight: every type weighs the same.
base_weight_Flat(event_type) == 10

\* event_weights.get(event_type, 0.1), in tenths.
base_weight(event_type) ==
    CASE event_type = "WatchEvent" -> 10
      [] event_type = "ForkEvent" -> 8
      [] event_type = "PullRequestEvent" -> 6
      [] event_type = "PushEvent" -> 3
      [] event_type = "IssuesEvent" -> 4
      [] event_type = "CreateEvent" -> 2
      [] event_type = "ReleaseEvent" -> 5
      [] event_type = "IssueCommentEvent" -> 1
      [] OTHER -> 1

\* Mutant of floor_stars: the floor is all there is.
floor_stars_Flat(total_stars) == 10

\* Mutant of floor_stars: the floor is 1.
floor_stars_One(total_stars) == IF total_stars > 1 THEN total_stars ELSE 1

\* max(total_stars, 10)
floor_stars(total_stars) == IF total_stars > 10 THEN total_stars ELSE 10

\* math.log(x) in millionths, at the arguments the star counts of the model lead to.
math_log(x) ==
    CASE x = 2 -> 693147
      [] x = 6 -> 1791759
      [] x = 11 -> 2397895
      [] x = 12 -> 2484907
      [] x = 101 -> 4615121
      [] x = 201 -> 5303305
      [] x = 1001 -> 6908755
      [] x = 100001 -> 11512935

\* Long division: digits more decimal digits of (q + r / d), as << quotient, remainder >>.
RECURSIVE Divide(_, _, _, _)
Divide(q, r, d, digits) ==
    IF digits = 0 THEN << q, r >>
    ELSE Divide(q * 10 + ((r * 10) \div d), (r * 10) % d, d, digits - 1)

\* _calculate_velocity_score (shared.velocity.calculate_velocity_score is the
\* same): round(base_weight * (1.0 / math.log(max(total_stars, 10) + 1)) * 10, 4),
\* in ten-thousandths.
calculate_velocity_score(event_type, total_stars) ==
    LET d == math_log(floor_stars(total_stars) + 1)
        a == base_weight(event_type) * 1000000
        qr == Divide(a \div d, a % d, d, 4)
    IN  IF 2 * qr[2] > d \/ (2 * qr[2] = d /\ qr[1] % 2 = 1) THEN qr[1] + 1 ELSE qr[1]


\* ---------------------------------------------------- poller: pure helpers
\* Mutant of rotate_token: the index is not advanced.
rotate_token_Stuck(idx) == idx

\* _rotate_token
rotate_token(idx) == (idx + 1) % tokens_len

\* _get_headers: the current credential and, when a token is stored, If-None-Match.
get_headers(idx, tag) == [token_idx |-> idx, if_none_match |-> tag]

\* Mutant of EtagAfterResponse: the header's value is stored even when absent.
EtagAfterResponse_Drops(old, hdr) == hdr

\* _fetch_events, "Update ETag for next request": a truthy ETag header replaces
\* the stored token, for a response of any status.
EtagAfterResponse(old, hdr) == IF hdr # NoVal THEN hdr ELSE old

\* Mutant of IsNewId: the id is not tested for truthiness.
IsNewId_AnyId(id, seen) == id \notin seen

\* Mutant of IsNewId: the window is not consulted.
IsNewId_NoWindow(id, seen) == id # 0

\* _dedupe_events' test: a truthy id that is not in the window.
IsNewId(id, seen) == id # 0 /\ id \notin seen

\* The latest ETag header seen so far: hdr when the response carries one.
LatestHeader(latest, hdr) == IF hdr = NoVal THEN latest ELSE hdr

\* _dedupe_events' loop: the events reported new, in order, each id being added
\* to the window as it is met.
RECURSIVE NewEvents(_, _)
NewEvents(events, seen) ==
    IF events = << >> THEN << >>
    ELSE IF IsNewId(Head(events).id, seen)
         THEN << Head(events) >> \o NewEvents(Tail(events), seen \cup {Head(events).id})
         ELSE NewEvents(Tail(events), seen)

\* The ids of a list of events.
IdsOf(events) == {events[i].id : i \in DOMAIN events}

\* _dedupe_events' truncation: when the window is over capacity,
\* set(list(window)[max_seen_events // 2:]) keeps all but max_seen_events // 2
\* ids; a set's iteration order is arbitrary, so which ones is not determined.
Truncations(window) ==
    IF Cardinality(window) > max_seen_events
    THEN {keep \in SUBSET window :
            Cardinality(keep) = Cardinality(window) - (max_seen_events \div 2)}
    ELSE {window}

\* GitHubEventPoller.__init__; config.validate() has refused an empty pool.
InitPollVars ==
    /\ insert_order = << >>
    /\ p_pc = "idle"
    /\ current_token_idx = 0
    /\ etag = NoVal
    /\ seen_event_ids = {}
    /\ attempt = 0
    /\ request = get_headers(0, NoVal)
    /\ to_publish = << >>
    /\ published = {}
    /\ poll_count = 0
    /\ last_status = "none"
    /\ events_count = 0
    /\ cycle_start = [idx |-> 0, etag |-> NoVal]
    /\ cycle_hdr = NoVal
    /\ cycle_published = 0
    /\ cycle_suppressed = 0
    /\ net_failures = 0
    /\ new_count = [id \in EventIds |-> 0]
    /\ p_exc = "none"
    /\ p_exit_code = -1
    /\ kafka_bootstrap_servers = "localhost:9092"
    /\ producer = "open"
    /\ unflushed = << >>
    /\ flushed = {}

\* ------------------------------------------------ processor: pure helpers
\* _extract_repo_info: None (here: no entry) unless repo id and name are truthy.
extract_repo_info(event) ==
    [repo_id |-> event.repo_id, full_name |-> event.repo_name,
     language |-> event.language, description |-> event.description,
     total_stars |-> event.stars]

\* Mutant of Accepts: the repository is not looked at.
Accepts_AnyRepo(event) == event.type \in SUPPORTED_EVENTS

\* Whether _process_event returns a record (not None) for the event.
Accepts(event) ==
    /\ event.type \in SUPPORTED_EVENTS
    /\ event.repo_id # 0
    /\ event.repo_name # ""

\* f with key k set to v (a dict assignment).
Put(f, k, v) == [x \in DOMAIN f \cup {k} |-> IF x = k THEN v ELSE f[x]]

\* The empty dict.
EmptyDict == [x \in {} |-> 0]

\* Mutant of CacheAfter: every accepted event sets the cached count, 0 included.
CacheAfter_Resets(cache, event) ==
    IF Accepts(event) THEN Put(cache, event.repo_id, event.stars) ELSE cache

\* The cache after _process_event: set only by a truthy star count.
CacheAfter(cache, event) ==
    IF Accepts(event) /\ event.stars # 0
    THEN Put(cache, event.repo_id, event.stars)
    ELSE cache

\* Mutant of ReposAfter: the snapshot is staged before the type is looked at.
ReposAfter_AnyType(repos, event) ==
    IF event.repo_id # 0 /\ event.repo_name # ""
    THEN Put(repos, event.repo_id, extract_repo_info(event))
    ELSE repos

\* The staged snapshots after _process_event: the latest event's info replaces
\* what an earlier event of the batch staged.
ReposAfter(repos, event) ==
    IF Accepts(event)
    THEN Put(repos, event.repo_id, extract_repo_info(event))
    ELSE repos

\* self.repo_stars_cache.get(repo_id, 0)
cache_get(cache, repo_id) == IF repo_id \in DOMAIN cache THEN cache[repo_id] ELSE 0

\* Mutant of stars_delta: every event counts as a star.
stars_delta_Always(event_type) == 1

\* 1 if event_type in self.STAR_EVENTS else 0
stars_delta(event_type) == IF event_type \in STAR_EVENTS THEN 1 ELSE 0

\* Whether a "created_at" value is a string.
IsString(created_at) == created_at \notin {NoVal, "#1705314600"}

\* created_at.replace("Z", "+00:00")
replace_Z(created_at) ==
    IF created_at = "2024-01-15T10:30:00Z" THEN "2024-01-15T10:30:00+00:00" ELSE created_at

\* Whether datetime.fromisoformat accepts the string.
IsIsoFormat(str) == str = "2024-01-15T10:30:00+00:00"

\* Mutant of parse_timestamp: the value is taken as it comes.
parse_timestamp_Raw(created_at) == created_at

\* "Parse timestamp": a falsy value, a value without .replace (AttributeError)
\* and a string fromisoformat refuses (ValueError) give the current time, "now".
parse_timestamp(created_at) ==
    IF created_at \in {NoVal, ""} THEN "now"
    ELSE IF ~IsString(created_at) THEN "now"
    ELSE IF IsIsoFormat(replace_Z(created_at)) THEN replace_Z(created_at)
    ELSE "now"

\* The record _process_event returns; offset is the message it came from and
\* cache the star cache after the event's own update.
MetricOf(event, offset, cache) ==
    [repo_id |-> event.repo_id, repo_name |-> event.repo_name, event_type |-> event.type,
     timestamp |-> parse_timestamp(event.created_at),
     stars_delta |-> stars_delta(event.type),
     velocity_score |->
         calculate_velocity_score(event.type, cache_get(cache, event.repo_id)),
     offset |-> offset]

\* Mutant of COALESCE: the incoming value is taken even when it is null.
COALESCE_Incoming(a, b) == a

\* Mutant of COALESCE: the existing value is kept once it is not null.
COALESCE_Existing(a, b) == IF b # NoVal THEN b ELSE a

\* SQL COALESCE: the first argument that is not null.
COALESCE(a, b) == IF a # NoVal THEN a ELSE b

\* Mutant of GREATEST: the counts add up.
GREATEST_Sum(a, b) == a + b

\* Mutant of GREATEST: the incoming count is taken.
GREATEST_Incoming(a, b) == a

\* SQL GREATEST.
GREATEST(a, b) == IF a >= b THEN a ELSE b

\* One row of the INSERT ... ON CONFLICT (repo_id) DO UPDATE statement.
UpsertRow(table, r) ==
    IF r.repo_id \notin DOMAIN table
    THEN [full_name |-> r.full_name, language |-> r.language,
          description |-> r.description, total_stars |-> r.total_stars]
    ELSE [full_name |-> r.full_name,
          language |-> COALESCE(r.language, table[r.repo_id].language),
          description |-> COALESCE(r.description, table[r.repo_id].description),
          total_stars |-> GREATEST(r.total_stars, table[r.repo_id].total_stars)]

\* execute_batch of the upsert over repos_buffer.values() (one row per repo_id,
\* so the rows do not interact).
ApplyUpserts(table, repos) ==
    [id \in DOMAIN table \cup DOMAIN repos |->
        IF id \in DOMAIN repos THEN UpsertRow(table, repos[id]) ELSE table[id]]

\* Mutant of InsertRows: the table is replaced by the buffered records.
InsertRows_Replace(table, events) == events

\* The rows the metrics INSERT adds: one per buffered record, in order.
InsertRows(table, events) == table \o events

\* The middleware as constructed, no request seen.
InitRlVars ==
    /\ rl_now = 0
    /\ rl_requests = << >>
    /\ rl_last_cleanup = 0
    /\ rl_log = << >>

\* The ConnectionManager as constructed, no client connected.
InitWsVars ==
    /\ ws_clients = [c \in 1..MaxClients |-> "none"]
    /\ active_connections = {}
    /\ ws_running = FALSE
    /\ ws_broadcast_task = 0
    /\ ws_loops = << >>

InitApiVars == InitRlVars /\ InitWsVars

\* No call of a pure function is under way.
InitUnitVars ==
    /\ score_args = << [type |-> "WatchEvent", stars |-> 0], [type |-> "WatchEvent", stars |-> 0] >>
    /\ score_results = << >>
    /\ u_event = [type |-> "WatchEvent", repo_id |-> 1, repo_name |-> "o/r1",
                  language |-> NoVal, description |-> NoVal, stars |-> 0, shape |-> "ok",
                  created_at |-> NoVal]
    /\ u_cache = EmptyDict
    /\ u_repos_buffer = EmptyDict
    /\ u_result = "pending"
    /\ u_record = << >>

\* ------------------------------------------------------ processor: actions
InitProcVars ==
    /\ pc = "pull"
    /\ f_pc = "none"
    /\ f_ctx = "none"
    /\ events_buffer = << >>
    /\ repos_buffer = EmptyDict
    /\ repo_stars_cache = EmptyDict
    /\ events_processed = 0
    /\ consumed = 0
    /\ committed_offset = 0
    /\ accepted = {}
    /\ db_repos = EmptyDict
    /\ db_metrics = << >>
    /\ txn_repos = EmptyDict
    /\ txn_metrics = << >>
    /\ exc = "none"
    /\ exit_code = -1
    /\ logged = << >>
    /\ topic = << >>
    /\ last_flush = [events |-> << >>, repos |-> EmptyDict]
    /\ crashes = 0

\* The pipeline before it starts: the processor before its first message, the
\* poller before its first cycle, polling a feed of ids FeedIds with a pool of
\* NumTokens credentials.
Init ==
    /\ InitProcVars
    /\ InitPollVars
    /\ feed_ids = FeedIds
    /\ tokens_len = NumTokens
    /\ InitUnitVars
    /\ InitApiVars

\* Entering _flush_to_db from call site ctx; the early return when both buffers
\* are empty is never taken from the call sites, which test events_buffer first.
EnterFlush(ctx) ==
    /\ pc' = "flush"
    /\ f_pc' = "upsert"
    /\ f_ctx' = ctx

\* The messages the consumer may hand over next: after a restart from the
\* committed offset the ones it handed over before, then whatever was produced.
NextMessages == IF consumed < Len(topic) THEN {topic[consumed + 1]} ELSE ProcEvents

\* The topic as known after that message.
TopicWith(event) == IF consumed < Len(topic) THEN topic ELSE Append(topic, event)

\* Whether _process_event raises on the event: past the type test, repo.get on a
\* null "repo" (line 138) and, past the repository test, payload.get or
\* repo_payload.get on a null "payload" or "repository" (lines 120-128) raise
\* AttributeError.
Raises(event) ==
    /\ event.type \in SUPPORTED_EVENTS
    /\ \/ event.shape = "repo_null"
       \/ event.shape = "payload_null" /\ event.repo_id # 0 /\ event.repo_name # ""

\* Mutant of BufferFull: the flush waits for one record more.
BufferFull_Above(buffer) == Len(buffer) > batch_size

\* process_batch, "Flush when batch size reached".
BufferFull(buffer) == Len(buffer) >= batch_size

\* process_batch, one iteration of `for message in self.consumer`: the message
\* is processed, its record buffered, and a full buffer starts a flush.
Consume ==
    /\ pc = "pull"
    /\ consumed < MaxMsgs
    /\ \E event \in NextMessages :
        LET offset == consumed + 1
            buffer == IF Accepts(event)
                      THEN Append(events_buffer,
                                  MetricOf(event, offset, CacheAfter(repo_stars_cache, event)))
                      ELSE events_buffer
        IN  /\ ~Raises(event)
            /\ topic' = TopicWith(event)
            /\ consumed' = offset
            /\ repo_stars_cache' = CacheAfter(repo_stars_cache, event)
            /\ repos_buffer' = ReposAfter(repos_buffer, event)
            /\ events_buffer' = buffer
            /\ accepted' = IF Accepts(event) THEN accepted \cup {offset} ELSE accepted
            /\ events_processed' = IF Accepts(event) THEN events_processed + 1 ELSE events_processed
            /\ IF BufferFull(buffer)
               THEN EnterFlush("mid")
               ELSE UNCHANGED << pc, f_pc, f_ctx >>
    /\ UNCHANGED << apiVars, unitVars, pollVars, last_flush, crashes, committed_offset, db_repos, db_metrics,
                    txn_repos, txn_metrics, exc, exit_code, logged >>

\* process_batch, an iteration in which _process_event raises: the exception is
\* no KafkaError, so it leaves process_batch, and run's loop, which handles
\* KeyboardInterrupt only.
ProcessEventError ==
    /\ pc = "pull"
    /\ consumed < MaxMsgs
    /\ \E event \in NextMessages :
        /\ Raises(event)
        /\ topic' = TopicWith(event)
    /\ consumed' = consumed + 1
    /\ exc' = "AttributeError"
    /\ pc' = "final"
    /\ UNCHANGED << apiVars, unitVars, pollVars, last_flush, crashes, f_pc, f_ctx, events_buffer, repos_buffer,
                    repo_stars_cache, events_processed, committed_offset, accepted, db_repos,
                    db_metrics, txn_repos, txn_metrics, exit_code, logged >>

\* Mutant of EndPull: the end-of-pull flush is skipped.
EndPull_SkipFlush ==
    /\ pc = "pull"
    /\ pc' = "commit_offsets"
    /\ UNCHANGED << apiVars, unitVars, pollVars, topic, last_flush, crashes, f_pc, f_ctx, events_buffer, repos_buffer, repo_stars_cache,
                    events_processed, consumed, committed_offset, accepted, db_repos,
                    db_metrics, txn_repos, txn_metrics, exc, exit_code, logged >>

\* process_batch: the iterator ends (consumer_timeout_ms without a message);
\* what is still buffered is flushed, else the offsets are up next.
EndPull ==
    /\ pc = "pull"
    /\ IF events_buffer # << >>
       THEN EnterFlush("end")
       ELSE /\ pc' = "commit_offsets"
            /\ UNCHANGED << f_pc, f_ctx >>
    /\ UNCHANGED << apiVars, unitVars, pollVars, topic, last_flush, crashes, events_buffer, repos_buffer, repo_stars_cache, events_processed, consumed,
                    committed_offset, accepted, db_repos, db_metrics, txn_repos, txn_metrics,
                    exc, exit_code, logged >>

\* process_batch: `if events_processed > 0: self.consumer.commit()`, then the
\* return to run's loop and the next call of process_batch.
CommitOffsets ==
    /\ pc = "commit_offsets"
    /\ committed_offset' = IF events_processed > 0 THEN consumed ELSE committed_offset
    /\ events_processed' = 0
    /\ pc' = "pull"
    /\ UNCHANGED << apiVars, unitVars, pollVars, topic, last_flush, crashes, f_pc, f_ctx, events_buffer, repos_buffer, repo_stars_cache, consumed,
                    accepted, db_repos, db_metrics, txn_repos, txn_metrics, exc, exit_code,
                    logged >>

\* A KafkaError from the consumer (iterating or committing): logged and re-raised
\* by process_batch, which run does not catch.
QueueError ==
    /\ \/ pc = "pull"
       \/ pc = "commit_offsets" /\ events_processed > 0
    /\ exc' = "KafkaError"
    /\ logged' = Append(logged, "Kafka error")
    /\ pc' = "final"
    /\ UNCHANGED << apiVars, unitVars, pollVars, topic, last_flush, crashes, f_pc, f_ctx, events_buffer, repos_buffer, repo_stars_cache,
                    events_processed, consumed, committed_offset, accepted, db_repos,
                    db_metrics, txn_repos, txn_metrics, exit_code >>

\* _flush_to_db: the repositories upsert, inside the connection's transaction.
FlushUpsert ==
    /\ pc = "flush" /\ f_pc = "upsert"
    /\ txn_repos' = ApplyUpserts(txn_repos, repos_buffer)
    /\ f_pc' = "insert"
    /\ UNCHANGED << apiVars, unitVars, pollVars, topic, last_flush, crashes, pc, f_ctx, events_buffer, repos_buffer, repo_stars_cache,
                    events_processed, consumed, committed_offset, accepted, db_repos,
                    db_metrics, txn_metrics, exc, exit_code, logged >>

\* _flush_to_db: the repo_metrics insert, inside the same transaction.
FlushInsert ==
    /\ pc = "flush" /\ f_pc = "insert"
    /\ txn_metrics' = InsertRows(txn_metrics, events_buffer)
    /\ f_pc' = "commit"
    /\ UNCHANGED << apiVars, unitVars, pollVars, topic, last_flush, crashes, pc, f_ctx, events_buffer, repos_buffer, repo_stars_cache,
                    events_processed, consumed, committed_offset, accepted, db_repos,
                    db_metrics, txn_repos, exc, exit_code, logged >>

\* _flush_to_db: self.db_conn.commit() makes the transaction's work durable.
FlushCommit ==
    /\ pc = "flush" /\ f_pc = "commit"
    /\ db_repos' = txn_repos
    /\ db_metrics' = txn_metrics
    /\ last_flush' = [events |-> events_buffer, repos |-> repos_buffer]
    /\ f_pc' = "clear"
    /\ UNCHANGED << apiVars, unitVars, pollVars, topic, crashes, pc, f_ctx, events_buffer, repos_buffer, repo_stars_cache,
                    events_processed, consumed, committed_offset, accepted, txn_repos,
                    txn_metrics, exc, exit_code, logged >>

\* Where control goes when _flush_to_db returns to call site ctx.
ReturnFromFlush(ctx) ==
    /\ pc' = CASE ctx = "mid" -> "pull"
              [] ctx = "end" -> "commit_offsets"
              [] OTHER -> "close"
    /\ f_pc' = "none"
    /\ f_ctx' = "none"

\* _flush_to_db: both buffers are cleared after the commit, and the call returns.
FlushClear ==
    /\ pc = "flush" /\ f_pc = "clear"
    /\ events_buffer' = << >>
    /\ repos_buffer' = EmptyDict
    /\ ReturnFromFlush(f_ctx)
    /\ UNCHANGED << apiVars, unitVars, pollVars, topic, last_flush, crashes, repo_stars_cache, events_processed, consumed, committed_offset, accepted,
                    db_repos, db_metrics, txn_repos, txn_metrics, exc, exit_code, logged >>

\* Mutant of FlushDbError: the handler commits what the transaction holds
\* instead of rolling it back.
FlushDbError_Commits ==
    /\ pc = "flush" /\ f_pc \in {"upsert", "insert", "commit"}
    /\ db_repos' = txn_repos
    /\ db_metrics' = txn_metrics
    /\ f_pc' = "none"
    /\ f_ctx' = "none"
    /\ IF f_ctx = "final"
       THEN /\ logged' = logged \o << "Database error", "Error during final flush" >>
            /\ pc' = "close"
            /\ exc' = exc
       ELSE /\ logged' = Append(logged, "Database error")
            /\ pc' = "final"
            /\ exc' = "DbError"
    /\ UNCHANGED << apiVars, unitVars, pollVars, topic, last_flush, crashes, events_buffer, repos_buffer, repo_stars_cache, events_processed,
                    consumed, committed_offset, accepted, txn_repos, txn_metrics, exit_code >>

\* Mutant of FlushDbError: the buffers are cleared on the error path too.
FlushDbError_Clears ==
    /\ pc = "flush" /\ f_pc \in {"upsert", "insert", "commit"}
    /\ txn_repos' = db_repos
    /\ txn_metrics' = db_metrics
    /\ events_buffer' = << >>
    /\ repos_buffer' = EmptyDict
    /\ f_pc' = "none"
    /\ f_ctx' = "none"
    /\ IF f_ctx = "final"
       THEN /\ logged' = logged \o << "Database error", "Error during final flush" >>
            /\ pc' = "close"
            /\ exc' = exc
       ELSE /\ logged' = Append(logged, "Database error")
            /\ pc' = "final"
            /\ exc' = "DbError"
    /\ UNCHANGED << apiVars, unitVars, pollVars, topic, last_flush, crashes, repo_stars_cache, events_processed, consumed, committed_offset,
                    accepted, db_repos, db_metrics, exit_code >>

\* Mutant of FlushDbError: the handler logs and rolls back but does not
\* re-raise, so the caller carries on as after a flush that returned.
FlushDbError_Swallows ==
    /\ pc = "flush" /\ f_pc \in {"upsert", "insert", "commit"}
    /\ txn_repos' = db_repos
    /\ txn_metrics' = db_metrics
    /\ logged' = Append(logged, "Database error")
    /\ pc' = CASE f_ctx = "mid" -> "pull"
              [] f_ctx = "end" -> "commit_offsets"
              [] OTHER -> "close"
    /\ f_pc' = "none"
    /\ f_ctx' = "none"
    /\ UNCHANGED << apiVars, unitVars, pollVars, topic, last_flush, crashes, events_buffer, repos_buffer, repo_stars_cache, events_processed,
                    consumed, committed_offset, accepted, db_repos, db_metrics, exc,
                    exit_code >>

\* _flush_to_db: a statement or the commit raises. The handler logs, rolls the
\* transaction back and re-raises; the call from run's finally block catches and
\* logs it, the calls from process_batch let it leave the loop.
FlushDbError ==
    /\ pc = "flush" /\ f_pc \in {"upsert", "insert", "commit"}
    /\ txn_repos' = db_repos
    /\ txn_metrics' = db_metrics
    /\ f_pc' = "none"
    /\ f_ctx' = "none"
    /\ IF f_ctx = "final"
       THEN /\ logged' = logged \o << "Database error", "Error during final flush" >>
            /\ pc' = "close"
            /\ exc' = exc
       ELSE /\ logged' = Append(logged, "Database error")
            /\ pc' = "final"
            /\ exc' = "DbError"
    /\ UNCHANGED << apiVars, unitVars, pollVars, topic, last_flush, crashes, events_buffer, repos_buffer, repo_stars_cache, events_processed,
                    consumed, committed_offset, accepted, db_repos, db_metrics, exit_code >>

\* KeyboardInterrupt while the loop runs: in the consumer's wait, or anywhere in
\* a flush, where `except Exception` does not catch it and nothing is rolled back.
Interrupt ==
    /\ pc \in {"pull", "commit_offsets"} \/ (pc = "flush" /\ f_ctx # "final")
    /\ exc' = "KeyboardInterrupt"
    /\ pc' = "final"
    /\ f_pc' = "none"
    /\ f_ctx' = "none"
    /\ UNCHANGED << apiVars, unitVars, pollVars, topic, last_flush, crashes, events_buffer, repos_buffer, repo_stars_cache, events_processed,
                    consumed, committed_offset, accepted, db_repos, db_metrics, txn_repos,
                    txn_metrics, exit_code, logged >>

\* Mutant of FinalFlush: the finally block goes straight to the cleanup.
FinalFlush_Skips ==
    /\ pc = "final"
    /\ pc' = "close"
    /\ UNCHANGED << apiVars, unitVars, pollVars, topic, last_flush, crashes, f_pc, f_ctx, events_buffer,
                    repos_buffer, repo_stars_cache, events_processed, consumed,
                    committed_offset, accepted, db_repos, db_metrics, txn_repos, txn_metrics,
                    exc, exit_code, logged >>

\* run's finally block: the final flush when records are still buffered.
FinalFlush ==
    /\ pc = "final"
    /\ IF events_buffer # << >>
       THEN EnterFlush("final")
       ELSE /\ pc' = "close"
            /\ UNCHANGED << f_pc, f_ctx >>
    /\ UNCHANGED << apiVars, unitVars, pollVars, topic, last_flush, crashes, events_buffer, repos_buffer, repo_stars_cache, events_processed, consumed,
                    committed_offset, accepted, db_repos, db_metrics, txn_repos, txn_metrics,
                    exc, exit_code, logged >>

\* run's finally block: consumer.close() (enable_auto_commit is False, so no
\* offsets are committed) and db_conn.close(), which drops an open transaction;
\* then main: any Exception is logged and sys.exit(1), KeyboardInterrupt was
\* handled in run and main returns.
CloseAndExit ==
    /\ pc = "close"
    /\ txn_repos' = db_repos
    /\ txn_metrics' = db_metrics
    /\ exit_code' = IF exc \in {"DbError", "KafkaError", "AttributeError"} THEN 1 ELSE 0
    /\ logged' = IF exc \in {"DbError", "KafkaError", "AttributeError"}
                 THEN Append(logged, "Unexpected error") ELSE logged
    /\ pc' = "exited"
    /\ UNCHANGED << apiVars, unitVars, pollVars, topic, last_flush, crashes, f_pc, f_ctx, events_buffer, repos_buffer, repo_stars_cache,
                    events_processed, consumed, committed_offset, accepted, db_repos,
                    db_metrics, exc >>

NextProc ==
    \/ Consume
    \/ ProcessEventError
    \/ EndPull
    \/ CommitOffsets
    \/ QueueError
    \/ FlushUpsert
    \/ FlushInsert
    \/ FlushCommit
    \/ FlushClear
    \/ FlushDbError
    \/ Interrupt
    \/ FinalFlush
    \/ CloseAndExit

\* The processor runs; the poller stands still.
SpecProc == Init /\ [][NextProc]_vars

\* The process is killed (SIGKILL, power loss) while its loop runs and a new one
\* is started: everything in memory is gone, the store drops the connection's
\* open transaction, and the consumer of the new process starts at the group's
\* committed offset (auto_offset_reset "earliest" when there is none).
CrashRestart ==
    /\ pc \in {"pull", "flush", "commit_offsets"}
    /\ crashes < MaxCrashes
    /\ crashes' = crashes + 1
    /\ pc' = "pull"
    /\ f_pc' = "none"
    /\ f_ctx' = "none"
    /\ events_buffer' = << >>
    /\ repos_buffer' = EmptyDict
    /\ repo_stars_cache' = EmptyDict
    /\ events_processed' = 0
    /\ consumed' = committed_offset
    /\ txn_repos' = db_repos
    /\ txn_metrics' = db_metrics
    /\ UNCHANGED << apiVars, unitVars, pollVars, topic, last_flush, committed_offset, accepted, db_repos,
                    db_metrics, exc, exit_code, logged >>

\* The processor with no fault but the kill.
NextProcCrash ==
    \/ Consume
    \/ EndPull
    \/ CommitOffsets
    \/ FlushUpsert
    \/ FlushInsert
    \/ FlushCommit
    \/ FlushClear
    \/ CrashRestart

\* The processor runs and may be killed and started again.
SpecProcCrash == Init /\ [][NextProcCrash]_vars

\* --------------------------------------------------------- poller: actions
\* Mutant of message_key: the event's own id is the key.
message_key_EventId(event) == ToString(event.id)

\* str(event.get("repo", {}).get("id", "unknown")): the key of the message; an
\* event without a repository id (repo_id 0) gets the default.
message_key(event) == IF event.repo_id = 0 THEN "unknown" ELSE ToString(event.repo_id)

\* What _publish_event hands to producer.send: the key, and as value the
\* event with event["ingested_at"] set to the current time, "utcnow".
Message(event) ==
    [key |-> message_key(event),
     value |-> [id |-> event.id, type |-> event.type, repo_id |-> event.repo_id,
                ingested_at |-> "utcnow"]]

\* run's loop: the next cycle calls poll_once, and _fetch_events sends its first
\* request.
PollStart ==
    /\ p_pc = "idle"
    /\ poll_count < MaxPolls
    /\ poll_count' = poll_count + 1
    /\ attempt' = 1
    /\ request' = get_headers(current_token_idx, etag)
    /\ cycle_start' = [idx |-> current_token_idx, etag |-> etag]
    /\ cycle_hdr' = NoVal
    /\ cycle_published' = 0
    /\ cycle_suppressed' = 0
    /\ net_failures' = 0
    /\ p_pc' = "fetching"
    /\ UNCHANGED << apiVars, unitVars, procVars, kafka_bootstrap_servers, prodVars, feed_ids, tokens_len, insert_order, current_token_idx, etag, seen_event_ids, to_publish, published,
                    last_status, events_count, new_count, p_exc, p_exit_code >>

\* The retry decorator after an attempt raised a RequestException: the next
\* attempt is sent with freshly built headers, or, the attempts used up, the
\* decorator raises RetryError (reraise is not set). poll_once catches only
\* requests.RequestException and KafkaError, so RetryError leaves poll_once and
\* run's loop.
AfterFailedAttempt(tag) ==
    IF attempt < MaxAttempts
    THEN /\ attempt' = attempt + 1
         /\ request' = get_headers(current_token_idx, tag)
         /\ UNCHANGED << p_pc, last_status, events_count, p_exc >>
    ELSE /\ last_status' = "RetryError"
         /\ p_exc' = "RetryError"
         /\ p_pc' = "closing"
         /\ UNCHANGED << attempt, request, events_count >>

\* _fetch_events: requests.get raises (connection error, timeout).
NetworkError ==
    /\ p_pc = "fetching"
    /\ AfterFailedAttempt(etag)
    /\ net_failures' = net_failures + 1
    /\ UNCHANGED << apiVars, unitVars, procVars, kafka_bootstrap_servers, prodVars, feed_ids, tokens_len, insert_order, cycle_suppressed, current_token_idx, etag, seen_event_ids, to_publish, published,
                    poll_count, cycle_start, cycle_hdr, cycle_published, new_count,
                    p_exit_code >>

\* _fetch_events: a response whose status is none of 200, 304, 403; the token
\* is updated from its header, then raise_for_status raises HTTPError.
HttpError ==
    /\ p_pc = "fetching"
    /\ \E hdr \in ETagHeaders :
        /\ etag' = EtagAfterResponse(etag, hdr)
        /\ cycle_hdr' = LatestHeader(cycle_hdr, hdr)
        /\ AfterFailedAttempt(EtagAfterResponse(etag, hdr))
    /\ UNCHANGED << apiVars, unitVars, procVars, kafka_bootstrap_servers, prodVars, feed_ids, tokens_len, insert_order, cycle_suppressed, net_failures, current_token_idx, seen_event_ids, to_publish, published,
                    poll_count, cycle_start, cycle_published, new_count, p_exit_code >>

\* _fetch_events returns ([], 304) and poll_once returns 0. The upstream answers
\* not-modified only to a conditional request.
NotModified ==
    /\ p_pc = "fetching"
    /\ request.if_none_match # NoVal
    /\ \E hdr \in ETagHeaders :
        /\ etag' = EtagAfterResponse(etag, hdr)
        /\ cycle_hdr' = LatestHeader(cycle_hdr, hdr)
    /\ last_status' = "304"
    /\ events_count' = 0
    /\ p_pc' = "idle"
    /\ UNCHANGED << apiVars, unitVars, procVars, kafka_bootstrap_servers, prodVars, feed_ids, tokens_len, insert_order, cycle_suppressed, net_failures, current_token_idx, seen_event_ids, attempt, request,
                    to_publish, published, poll_count, cycle_start, cycle_published,
                    new_count, p_exc, p_exit_code >>

\* _fetch_events on 403: the credential is rotated and the token cleared (after
\* the header update); it returns ([], 403) and poll_once returns 0.
RateLimited ==
    /\ p_pc = "fetching"
    /\ \E hdr \in ETagHeaders : cycle_hdr' = LatestHeader(cycle_hdr, hdr)
    /\ current_token_idx' = rotate_token(current_token_idx)
    /\ etag' = NoVal
    /\ last_status' = "403"
    /\ events_count' = 0
    /\ p_pc' = "idle"
    /\ UNCHANGED << apiVars, unitVars, procVars, kafka_bootstrap_servers, prodVars, feed_ids, tokens_len, insert_order, cycle_suppressed, net_failures, seen_event_ids, attempt, request, to_publish, published,
                    poll_count, cycle_start, cycle_published, new_count, p_exc,
                    p_exit_code >>

\* _fetch_events returns the page of a 200 response; poll_once runs
\* _dedupe_events over it (loop, then truncation) and either returns 0, nothing
\* being new, or starts publishing new_events.
Fetched ==
    /\ p_pc = "fetching"
    /\ \E hdr \in ETagHeaders, page \in Pages(feed_ids) :
        LET new_events == NewEvents(page, seen_event_ids)
            window == seen_event_ids \cup IdsOf(new_events)
        IN  /\ etag' = EtagAfterResponse(etag, hdr)
            /\ cycle_hdr' = LatestHeader(cycle_hdr, hdr)
            /\ \E keep \in Truncations(window) :
                /\ seen_event_ids' = keep
                /\ insert_order' =
                     SelectSeq(insert_order \o [i \in DOMAIN new_events |-> new_events[i].id],
                               LAMBDA id : id \in keep)
                /\ new_count' = [id \in EventIds |->
                      IF id \in window \ keep THEN 0
                      ELSE new_count[id]
                           + Cardinality({i \in DOMAIN new_events : new_events[i].id = id})]
            /\ to_publish' = new_events
            /\ cycle_suppressed' =
                 Cardinality({i \in DOMAIN page : page[i].id # 0}) - Len(new_events)
            /\ IF new_events = << >>
               THEN /\ p_pc' = "idle"
                    /\ last_status' = "200"
                    /\ events_count' = 0
               ELSE /\ p_pc' = "publishing"
                    /\ UNCHANGED << last_status, events_count >>
    /\ UNCHANGED << apiVars, unitVars, procVars, kafka_bootstrap_servers, prodVars, feed_ids, tokens_len, net_failures, current_token_idx, attempt, request, published, poll_count,
                    cycle_start, cycle_published, p_exc, p_exit_code >>

\* poll_once's publish loop, one _publish_event: producer.send of the next new
\* event.
PublishEvent ==
    /\ p_pc = "publishing"
    /\ to_publish # << >>
    /\ producer = "open"
    /\ unflushed' = Append(unflushed, Message(Head(to_publish)))
    /\ published' = published \cup {Head(to_publish).id}
    /\ cycle_published' = cycle_published + 1
    /\ to_publish' = Tail(to_publish)
    /\ UNCHANGED << apiVars, unitVars, procVars, kafka_bootstrap_servers, producer, flushed, feed_ids, tokens_len, insert_order, cycle_suppressed, net_failures, p_pc, current_token_idx, etag, seen_event_ids, attempt, request,
                    poll_count, last_status, events_count, cycle_start, cycle_hdr, new_count,
                    p_exc, p_exit_code >>

\* poll_once after the loop: producer.flush(timeout=10), then the number of new
\* events is returned.
PublishDone ==
    /\ p_pc = "publishing"
    /\ to_publish = << >>
    /\ flushed' = flushed \cup {unflushed[i].value.id : i \in DOMAIN unflushed}
    /\ unflushed' = << >>
    /\ events_count' = cycle_published
    /\ last_status' = "200"
    /\ p_pc' = "idle"
    /\ UNCHANGED << apiVars, unitVars, procVars, kafka_bootstrap_servers, producer, feed_ids, tokens_len, insert_order, cycle_suppressed, net_failures, current_token_idx, etag, seen_event_ids, attempt, request,
                    to_publish, published, poll_count, cycle_start, cycle_hdr,
                    cycle_published, new_count, p_exc, p_exit_code >>

\* producer.send or producer.flush raises a KafkaError: poll_once logs it and
\* returns 0; the rest of new_events is not sent.
PublishError ==
    /\ p_pc = "publishing"
    /\ to_publish' = << >>
    /\ events_count' = 0
    /\ last_status' = "KafkaError"
    /\ p_pc' = "idle"
    /\ UNCHANGED << apiVars, unitVars, procVars, kafka_bootstrap_servers, prodVars, feed_ids, tokens_len, insert_order, cycle_suppressed, net_failures, current_token_idx, etag, seen_event_ids, attempt, request,
                    published, poll_count, cycle_start, cycle_hdr, cycle_published,
                    new_count, p_exc, p_exit_code >>

\* KeyboardInterrupt during run's sleep between cycles.
PollerInterrupt ==
    /\ p_pc = "idle"
    /\ p_exc' = "KeyboardInterrupt"
    /\ p_pc' = "closing"
    /\ UNCHANGED << apiVars, unitVars, procVars, kafka_bootstrap_servers, prodVars, feed_ids, tokens_len, insert_order, cycle_suppressed, net_failures, current_token_idx, etag, seen_event_ids, attempt, request,
                    to_publish, published, poll_count, last_status, events_count,
                    cycle_start, cycle_hdr, cycle_published, new_count, p_exit_code >>

\* Mutant of PollerExit: the producer is closed without the flush (close with a
\* zero timeout).
PollerExit_NoFlush ==
    /\ p_pc = "closing"
    /\ producer' = IF producer = "open" THEN "closed" ELSE producer
    /\ p_exit_code' = IF p_exc = "KeyboardInterrupt" THEN 0 ELSE 1
    /\ p_pc' = "exited"
    /\ UNCHANGED << apiVars, unitVars, procVars, kafka_bootstrap_servers, unflushed, flushed, feed_ids, tokens_len, insert_order, cycle_suppressed, net_failures, current_token_idx, etag, seen_event_ids, attempt, request,
                    to_publish, published, poll_count, last_status, events_count,
                    cycle_start, cycle_hdr, cycle_published, new_count, p_exc >>

\* run's finally block: `if self.producer:` flush, then close; main then returns
\* after a KeyboardInterrupt, and logs and calls sys.exit(1) on any Exception.
PollerExit ==
    /\ p_pc = "closing"
    /\ IF producer = "open"
       THEN /\ flushed' = flushed \cup {unflushed[i].value.id : i \in DOMAIN unflushed}
            /\ unflushed' = << >>
            /\ producer' = "closed"
       ELSE UNCHANGED prodVars
    /\ p_exit_code' = IF p_exc = "KeyboardInterrupt" THEN 0 ELSE 1
    /\ p_pc' = "exited"
    /\ UNCHANGED << apiVars, unitVars, procVars, kafka_bootstrap_servers, feed_ids, tokens_len, insert_order, cycle_suppressed, net_failures, current_token_idx, etag, seen_event_ids, attempt, request,
                    to_publish, published, poll_count, last_status, events_count,
                    cycle_start, cycle_hdr, cycle_published, new_count, p_exc >>

NextPoll ==
    \/ PollStart
    \/ NetworkError
    \/ HttpError
    \/ NotModified
    \/ RateLimited
    \/ Fetched
    \/ PublishEvent
    \/ PublishDone
    \/ PublishError
    \/ PollerInterrupt
    \/ PollerExit

\* The poller before its first cycle, polling the larger feed.
InitPollWide ==
    /\ InitProcVars
    /\ InitPollVars
    /\ feed_ids = WideFeedIds
    /\ tokens_len = NumTokens
    /\ InitUnitVars
    /\ InitApiVars

\* The poller before its first cycle, with a credential pool of any size from
\* one credential on.
InitPollPools ==
    /\ InitProcVars
    /\ InitPollVars
    /\ feed_ids = FeedIds
    /\ tokens_len \in 1..NumTokens
    /\ InitUnitVars
    /\ InitApiVars

\* The ingestion process before main has run: any credential pool, the empty
\* one included, and a broker address that may be empty.
InitPollStartup ==
    /\ InitProcVars
    /\ InitUnitVars
    /\ InitApiVars
    /\ feed_ids = FeedIds
    /\ tokens_len \in 0..NumTokens
    /\ insert_order = << >>
    /\ p_pc = "starting"
    /\ current_token_idx = 0
    /\ etag = NoVal
    /\ seen_event_ids = {}
    /\ attempt = 0
    /\ request = get_headers(0, NoVal)
    /\ to_publish = << >>
    /\ published = {}
    /\ poll_count = 0
    /\ last_status = "none"
    /\ events_count = 0
    /\ cycle_start = [idx |-> 0, etag |-> NoVal]
    /\ cycle_hdr = NoVal
    /\ cycle_published = 0
    /\ cycle_suppressed = 0
    /\ net_failures = 0
    /\ new_count = [id \in EventIds |-> 0]
    /\ p_exc = "none"
    /\ p_exit_code = -1
    /\ kafka_bootstrap_servers \in {"", "localhost:9092"}
    /\ producer = "none"
    /\ unflushed = << >>
    /\ flushed = {}

\* Mutant of validate: only the credentials are looked at.
validate_TokensOnly(github_tokens_len, bootstrap_servers) ==
    IF github_tokens_len = 0 THEN "ValueError" ELSE "ok"

\* Config.validate: raises ValueError when github_tokens or
\* kafka_bootstrap_servers is falsy.
validate(github_tokens_len, bootstrap_servers) ==
    IF github_tokens_len = 0 THEN "ValueError"
    ELSE IF bootstrap_servers = "" THEN "ValueError"
    ELSE "ok"

\* main up to run's loop: the configuration is loaded and validated; a
\* ValueError is logged and the process exits with status 1 before the poller
\* exists; else the poller is constructed and run connects the producer.
Startup ==
    /\ p_pc = "starting"
    /\ IF validate(tokens_len, kafka_bootstrap_servers) = "ValueError"
       THEN /\ p_exc' = "ValueError"
            /\ p_exit_code' = 1
            /\ p_pc' = "exited"
            /\ UNCHANGED producer
       ELSE /\ producer' = "open"
            /\ p_pc' = "idle"
            /\ UNCHANGED << p_exc, p_exit_code >>
    /\ UNCHANGED << apiVars, unitVars, procVars, kafka_bootstrap_servers, unflushed, flushed, feed_ids,
                    tokens_len, insert_order, cycle_suppressed, net_failures,
                    current_token_idx, etag, seen_event_ids, attempt, request, to_publish,
                    published, poll_count, last_status, events_count, cycle_start, cycle_hdr,
                    cycle_published, new_count >>

\* _init_producer: the KafkaProducer constructor raises (no broker reachable);
\* run has not entered its try block, and main logs and exits with status 1.
ProducerConnectError ==
    /\ p_pc = "starting"
    /\ validate(tokens_len, kafka_bootstrap_servers) = "ok"
    /\ p_exc' = "NoBrokersAvailable"
    /\ p_exit_code' = 1
    /\ p_pc' = "exited"
    /\ UNCHANGED << apiVars, unitVars, procVars, kafka_bootstrap_servers, prodVars, feed_ids,
                    tokens_len, insert_order, cycle_suppressed, net_failures,
                    current_token_idx, etag, seen_event_ids, attempt, request, to_publish,
                    published, poll_count, last_status, events_count, cycle_start, cycle_hdr,
                    cycle_published, new_count >>

\* The ingestion process from main on.
NextPollStartup ==
    \/ Startup
    \/ ProducerConnectError
    \/ PollStart
    \/ NetworkError
    \/ HttpError
    \/ NotModified
    \/ RateLimited
    \/ Fetched
    \/ PublishEvent
    \/ PublishDone
    \/ PublishError
    \/ PollerInterrupt
    \/ PollerExit

\* The poller runs; the processor stands still.
SpecPoll == Init /\ [][NextPoll]_vars

SpecPollStartup == InitPollStartup /\ [][NextPollStartup]_vars

SpecPollWide == InitPollWide /\ [][NextPoll]_vars

SpecPollPools == InitPollPools /\ [][NextPoll]_vars

\* ------------------------------------------------- velocity score: calls
\* Two calls of the score function are about to be made, with any arguments.
InitScore ==
    /\ InitProcVars
    /\ InitPollVars
    /\ feed_ids = FeedIds
    /\ tokens_len = NumTokens
    /\ InitApiVars
    /\ score_args \in [1..2 -> [type : ScoreTypes, stars : ScoreStars]]
    /\ score_results = << >>
    /\ u_event = [type |-> "WatchEvent", repo_id |-> 1, repo_name |-> "o/r1",
                  language |-> NoVal, description |-> NoVal, stars |-> 0, shape |-> "ok",
                  created_at |-> NoVal]
    /\ u_cache = EmptyDict
    /\ u_repos_buffer = EmptyDict
    /\ u_result = "pending"
    /\ u_record = << >>

\* The two calls are made.
ComputeScores ==
    /\ score_results = << >>
    /\ score_results' =
          [i \in 1..2 |-> calculate_velocity_score(score_args[i].type, score_args[i].stars)]
    /\ UNCHANGED << apiVars, procVars, pollVars, score_args, u_event, u_cache, u_repos_buffer,
                    u_result, u_record >>

NextScore == ComputeScores

SpecScore == InitScore /\ [][NextScore]_vars

\* --------------------------------------------------- _process_event: calls
\* The events handed to _process_event: every scored type, with and without
\* the repository id and name, with and without a star count, and every
\* "created_at" value.
UnitEvents ==
    { [type |-> t, repo_id |-> r, repo_name |-> n, language |-> NoVal,
       description |-> NoVal, stars |-> c, shape |-> "ok", created_at |-> a] :
         t \in ScoreTypes, r \in {0, 1}, n \in {"", "o/r1"}, c \in {0, 5, 200},
         a \in CreatedAtValues }

\* A processor whose cache is empty or holds a count for repository 1 is about
\* to be handed one event.
InitEvent ==
    /\ InitProcVars
    /\ InitPollVars
    /\ feed_ids = FeedIds
    /\ tokens_len = NumTokens
    /\ score_args = << [type |-> "WatchEvent", stars |-> 0], [type |-> "WatchEvent", stars |-> 0] >>
    /\ score_results = << >>
    /\ InitApiVars
    /\ u_event \in UnitEvents
    /\ u_cache \in {EmptyDict, Put(EmptyDict, 1, 100)}
    /\ u_repos_buffer = EmptyDict
    /\ u_result = "pending"
    /\ u_record = << >>

\* _process_event(u_event)
ProcessEvent ==
    /\ u_result = "pending"
    /\ u_cache' = CacheAfter(u_cache, u_event)
    /\ u_repos_buffer' = ReposAfter(u_repos_buffer, u_event)
    /\ IF Accepts(u_event)
       THEN /\ u_result' = "record"
            /\ u_record' = << MetricOf(u_event, 1, CacheAfter(u_cache, u_event)) >>
       ELSE /\ u_result' = "None"
            /\ u_record' = << >>
    /\ UNCHANGED << apiVars, procVars, pollVars, score_args, score_results, u_event >>

NextEvent == ProcessEvent

SpecEvent == InitEvent /\ [][NextEvent]_vars

\* ------------------------------------------------ API: rate limiting
\* Mutant of count_since: a timestamp on the cutoff counts too.
count_since_Inclusive(requests, cutoff) ==
    Cardinality({i \in DOMAIN requests : requests[i] >= cutoff})

\* sum(1 for ts in requests if ts > cutoff)
count_since(requests, cutoff) ==
    Cardinality({i \in DOMAIN requests : requests[i] > cutoff})

\* _cleanup_old_requests: at most once in 60 seconds the timestamps not newer
\* than 60 seconds are dropped.
cleanup_old_requests(requests, last_cleanup, now) ==
    IF now - last_cleanup < 60 * TicksPerSecond
    THEN requests
    ELSE SelectSeq(requests, LAMBDA ts : ts > now - 60 * TicksPerSecond)

\* self._last_cleanup after _cleanup_old_requests.
last_cleanup_after(last_cleanup, now) ==
    IF now - last_cleanup < 60 * TicksPerSecond THEN last_cleanup ELSE now

\* _is_rate_limited, on the list as cleaned up.
is_rate_limited(requests, now) ==
    \/ count_since(requests, now - TicksPerSecond) >= requests_per_second
    \/ count_since(requests, now - 60 * TicksPerSecond) >= requests_per_minute

\* How far the clock has moved on when the next request arrives.
Delays == {0, 1, TicksPerSecond, 60 * TicksPerSecond - 1, 60 * TicksPerSecond}

\* dispatch of a request to /health, /docs, /redoc, /openapi.json or /ws: it
\* is passed on, neither checked nor recorded.
DispatchExempt ==
    /\ Len(rl_log) < MaxRequests
    /\ \E d \in Delays :
        /\ rl_now' = rl_now + d
        /\ rl_log' = Append(rl_log, [ts |-> rl_now + d, exempt |-> TRUE, status |-> 200])
    /\ UNCHANGED << procVars, pollVars, unitVars, wsVars, rl_requests, rl_last_cleanup >>

\* dispatch of a request to any other path: _is_rate_limited (with its
\* cleanup), then HTTPException(429) or the timestamp is recorded and the
\* request passed on.
DispatchLimited ==
    /\ Len(rl_log) < MaxRequests
    /\ \E d \in Delays :
        LET now == rl_now + d
            requests == cleanup_old_requests(rl_requests, rl_last_cleanup, now)
        IN  /\ rl_now' = now
            /\ rl_last_cleanup' = last_cleanup_after(rl_last_cleanup, now)
            /\ IF is_rate_limited(requests, now)
               THEN /\ rl_requests' = requests
                    /\ rl_log' = Append(rl_log, [ts |-> now, exempt |-> FALSE, status |-> 429])
               ELSE /\ rl_requests' = Append(requests, now)
                    /\ rl_log' = Append(rl_log, [ts |-> now, exempt |-> FALSE, status |-> 200])
    /\ UNCHANGED << procVars, pollVars, unitVars, wsVars >>

NextRateLimit ==
    \/ DispatchExempt
    \/ DispatchLimited

\* The API's rate limiter serves the requests of one client IP.
SpecRateLimit == Init /\ [][NextRateLimit]_vars

\* ------------------------------------------------ API: websocket fan-out
\* The _broadcast_loop tasks that have not returned.
AliveLoops == {t \in DOMAIN ws_loops : ws_loops[t] # "done"}

\* websocket_endpoint on a new client: manager.connect accepts, adds the
\* connection and, when _running is False, sets it and creates a broadcast task
\* (which starts at its loop condition).
WsConnect(c) ==
    /\ ws_clients[c] = "none"
    /\ ws_clients' = [ws_clients EXCEPT ![c] = "open"]
    /\ active_connections' = active_connections \cup {c}
    /\ IF ~ws_running
       THEN /\ ws_running' = TRUE
            /\ ws_loops' = Append(ws_loops, "check")
            /\ ws_broadcast_task' = Len(ws_loops) + 1
       ELSE UNCHANGED << ws_running, ws_loops, ws_broadcast_task >>
    /\ UNCHANGED << procVars, pollVars, unitVars, rlVars >>

\* The connection of a client breaks: sends to it raise from now on; its
\* endpoint has not noticed yet.
WsBreak(c) ==
    /\ ws_clients[c] = "open"
    /\ ws_clients' = [ws_clients EXCEPT ![c] = "dead"]
    /\ UNCHANGED << procVars, pollVars, unitVars, rlVars, active_connections, ws_running,
                    ws_broadcast_task, ws_loops >>

\* websocket_endpoint's finally block (the client closed, or a receive or the
\* keepalive failed): manager.disconnect discards the connection and clears
\* _running when none is left and a task was ever created.
WsDisconnect(c) ==
    /\ ws_clients[c] \in {"open", "dead"}
    /\ ws_clients' = [ws_clients EXCEPT ![c] = "closed"]
    /\ active_connections' = active_connections \ {c}
    /\ ws_running' = IF active_connections \ {c} = {} /\ ws_broadcast_task # 0
                     THEN FALSE ELSE ws_running
    /\ UNCHANGED << procVars, pollVars, unitVars, rlVars, ws_broadcast_task, ws_loops >>

\* _broadcast_loop, the loop condition: `while self._running and
\* self.active_connections`.
LoopCheck(t) ==
    /\ ws_loops[t] = "check"
    /\ ws_loops' = [ws_loops EXCEPT ![t] =
                        IF ws_running /\ active_connections # {} THEN "body" ELSE "done"]
    /\ UNCHANGED << procVars, pollVars, unitVars, rlVars, ws_clients, active_connections,
                    ws_running, ws_broadcast_task >>

\* _broadcast_loop, the body: the data is fetched and broadcast; the
\* connections a send failed for are discarded, _running is left alone; then
\* the task sleeps.
LoopBroadcast(t) ==
    /\ ws_loops[t] = "body"
    /\ active_connections' = {c \in active_connections : ws_clients[c] # "dead"}
    /\ ws_loops' = [ws_loops EXCEPT ![t] = "sleep"]
    /\ UNCHANGED << procVars, pollVars, unitVars, rlVars, ws_clients, ws_running,
                    ws_broadcast_task >>

\* _broadcast_loop, the body raises (the query fails): logged, then the sleep.
LoopBroadcastError(t) ==
    /\ ws_loops[t] = "body"
    /\ ws_loops' = [ws_loops EXCEPT ![t] = "sleep"]
    /\ UNCHANGED << procVars, pollVars, unitVars, rlVars, ws_clients, active_connections,
                    ws_running, ws_broadcast_task >>

\* _broadcast_loop: asyncio.sleep(5) is over.
LoopWake(t) ==
    /\ ws_loops[t] = "sleep"
    /\ ws_loops' = [ws_loops EXCEPT ![t] = "check"]
    /\ UNCHANGED << procVars, pollVars, unitVars, rlVars, ws_clients, active_connections,
                    ws_running, ws_broadcast_task >>

NextWebsocket ==
    \/ \E c \in 1..MaxClients : WsConnect(c)
    \/ \E c \in 1..MaxClients : WsBreak(c)
    \/ \E c \in 1..MaxClients : WsDisconnect(c)
    \/ \E t \in DOMAIN ws_loops : LoopCheck(t)
    \/ \E t \in DOMAIN ws_loops : LoopBroadcast(t)
    \/ \E t \in DOMAIN ws_loops : LoopBroadcastError(t)
    \/ \E t \in DOMAIN ws_loops : LoopWake(t)

\* The API's websocket manager serves its clients.
SpecWebsocket == Init /\ [][NextWebsocket]_vars

\* ------------------------------------------------------ processor: claims
\* The log shows a storage error raised by a flush called from process_batch
\* (run logs a second line right after one raised by its final flush).
StorageErrorInBatch ==
    \E i \in DOMAIN logged :
        /\ logged[i] = "Database error"
        /\ (i = Len(logged) \/ logged[i + 1] # "Error during final flush")

\* The log shows a storage error raised by any flush.
StorageErrorLogged == \E i \in DOMAIN logged : logged[i] = "Database error"

\* Every accepted message consumed so far has its record in the committed store.
AllAcceptedStored ==
    \A o \in accepted : \E i \in DOMAIN db_metrics : db_metrics[i].offset = o

\* n copies of sequence s, one after the other.
RECURSIVE Copies(_, _)
Copies(s, n) == IF n = 0 THEN << >> ELSE s \o Copies(s, n - 1)

\* C1: consumer.commit() is reached only with events_buffer empty, no exception
\* raised and the record of every accepted message consumed so far committed to
\* the store; and once a flush has raised, the committed offset never changes.
C1_CommitAfterFlush ==
    /\ [](pc = "commit_offsets" =>
            /\ events_buffer = << >>
            /\ exc = "none"
            /\ ~StorageErrorLogged
            /\ AllAcceptedStored)
    /\ [][committed_offset' # committed_offset =>
            /\ committed_offset' = consumed
            /\ events_buffer = << >>
            /\ AllAcceptedStored
            /\ ~StorageErrorLogged]_vars

\* C1 witness: offsets were committed after a mid-batch flush and an end-of-pull
\* flush, with accepted records in the store.
C1_Witness ==
    /\ committed_offset >= batch_size + 1
    /\ Cardinality(accepted) >= batch_size + 1
    /\ committed_offset = consumed

\* C2: a flush is all-or-nothing. Whenever the committed store changes, it
\* changes by every staged upsert and every buffered insert together (each
\* buffered record at least once), never by the upserts or the inserts alone.
C2_FlushAllOrNothing ==
    [][(db_repos' # db_repos \/ db_metrics' # db_metrics) =>
        /\ db_repos' = ApplyUpserts(db_repos, repos_buffer)
        /\ \E k \in 1..2 : db_metrics' = db_metrics \o Copies(events_buffer, k)]_vars

\* C2 witness: one flush failed and left nothing, another committed snapshots
\* and records.
C2_Witness ==
    /\ StorageErrorLogged
    /\ db_metrics # << >>
    /\ DOMAIN db_repos # {}
    /\ pc = "exited"

\* A step in which _flush_to_db raises a storage error: out of process_batch,
\* or into the handler around run's final flush.
FlushRaised ==
    \/ exc = "none" /\ exc' = "DbError"
    \/ /\ Len(logged') = Len(logged) + 2
       /\ logged'[Len(logged')] = "Error during final flush"

\* C3: a storage error in _flush_to_db is logged, the transaction is rolled
\* back, the error is raised and both buffers stay as they were; while a flush
\* runs the buffers change only by being cleared, and only with the
\* transaction committed and their records in the store.
C3_ErrorKeepsBuffers ==
    [][/\ FlushRaised =>
            /\ events_buffer' = events_buffer /\ events_buffer # << >>
            /\ repos_buffer' = repos_buffer
            /\ db_repos' = db_repos /\ db_metrics' = db_metrics
            /\ txn_repos' = db_repos /\ txn_metrics' = db_metrics
            /\ \E i \in DOMAIN logged' \ DOMAIN logged : logged'[i] = "Database error"
       /\ (pc = "flush" /\ << events_buffer', repos_buffer' >> # << events_buffer, repos_buffer >>) =>
            /\ events_buffer' = << >> /\ repos_buffer' = EmptyDict
            /\ txn_repos = db_repos /\ txn_metrics = db_metrics
            /\ Len(db_metrics) >= Len(events_buffer)
            /\ SubSeq(db_metrics, Len(db_metrics) - Len(events_buffer) + 1, Len(db_metrics))
                 = events_buffer
            /\ db_repos = ApplyUpserts(db_repos, repos_buffer)]_vars

\* C3 witness: a flush called from process_batch raised after an earlier flush
\* had committed; the buffers still hold the records of the failed flush.
C3_Witness ==
    /\ exc = "DbError"
    /\ pc = "final"
    /\ Len(events_buffer) = batch_size
    /\ db_metrics # << >>
    /\ txn_metrics = db_metrics

\* C4: a storage error raised by a flush inside process_batch is fatal. From
\* then on the loop is left for run's finally block, no message is consumed, no
\* offset is committed, and the process exits with status 1.
C4_StorageErrorFatal ==
    /\ [](StorageErrorInBatch =>
            /\ exc = "DbError"
            /\ pc \in {"final", "flush", "close", "exited"}
            /\ (pc = "flush" => f_ctx = "final")
            /\ (pc = "exited" => exit_code = 1))
    /\ [][StorageErrorInBatch =>
            /\ consumed' = consumed
            /\ committed_offset' = committed_offset
            /\ exc' = "DbError"]_vars

\* C4 witness: the process has exited with status 1 after a storage error in
\* process_batch, with consumed messages whose offsets were never committed.
C4_Witness ==
    /\ StorageErrorInBatch
    /\ pc = "exited"
    /\ exit_code = 1
    /\ committed_offset < consumed

\* --------------------------------------------------------- poller: claims
\* C5: when every fetch attempt of a cycle fails with a network-level error,
\* poll_once returns 0 without raising and run's loop goes on.
C5_NetworkFailureAbsorbed ==
    net_failures = MaxAttempts =>
        /\ p_exc # "RetryError"
        /\ p_pc \notin {"closing", "exited"} \/ p_exc = "KeyboardInterrupt"
        /\ p_exit_code # 1

\* C6: a 403 ends the cycle with the credential rotated exactly once, the
\* stored token discarded, nothing published, 0 returned and nothing raised; the
\* first request of the next cycle carries the rotated credential and no
\* If-None-Match.
C6_RateLimitedRotates ==
    /\ []((p_pc = "idle" /\ last_status = "403") =>
            /\ current_token_idx = (cycle_start.idx + 1) % tokens_len
            /\ etag = NoVal
            /\ cycle_published = 0
            /\ events_count = 0
            /\ p_exc = "none")
    /\ [][(p_pc = "idle" /\ last_status = "403" /\ p_pc' = "fetching") =>
            /\ request'.token_idx = (cycle_start.idx + 1) % tokens_len
            /\ request'.if_none_match = NoVal]_vars

\* C6 witness: the first request of the cycle after a 403, sent with the second
\* credential and without the token.
C6_Witness ==
    /\ p_pc = "fetching" /\ attempt = 1
    /\ last_status = "403"
    /\ cycle_start.idx = 1 /\ request.token_idx = 1
    /\ request.if_none_match = NoVal

\* C7 as stated: after a cycle that ended with 304 the credential index and the
\* stored token are what they were when it began, and nothing was published.
C7_NotModifiedChangesNothing ==
    (p_pc = "idle" /\ last_status = "304") =>
        /\ current_token_idx = cycle_start.idx
        /\ etag = cycle_start.etag
        /\ cycle_published = 0
        /\ events_count = 0

\* C7 amended: a cycle that ends with 304 publishes nothing, returns 0 and
\* leaves the credential index and the dedup window as they were; the stored
\* token is the latest ETag header a response of the cycle carried, and is
\* unchanged when none carried one.
C7_NotModifiedKeepsIndexAndWindow ==
    /\ []((p_pc = "idle" /\ last_status = "304") =>
            /\ current_token_idx = cycle_start.idx
            /\ etag = IF cycle_hdr # NoVal THEN cycle_hdr ELSE cycle_start.etag
            /\ etag # NoVal
            /\ cycle_published = 0
            /\ events_count = 0
            /\ p_exc = "none")
    /\ [][(p_pc = "fetching" /\ (p_pc' = "fetching" \/ (p_pc' = "idle" /\ last_status' = "304"))) =>
            /\ seen_event_ids' = seen_event_ids
            /\ published' = published]_vars

\* C7 witness: a cycle ended with 304 and the stored token is not the one the
\* cycle began with.
C7_Witness ==
    /\ p_pc = "idle" /\ last_status = "304"
    /\ etag # cycle_start.etag
    /\ seen_event_ids # {}

\* C8 as stated: every published event has a supported type and a repository id.
C8_PublishesOnlySupported ==
    \A id \in published :
        /\ FeedEvent(id).type \in SUPPORTED_EVENTS
        /\ FeedEvent(id).repo_id # 0

\* The ids of a list of events are pairwise distinct.
DistinctIds(events) ==
    \A i, j \in DOMAIN events : events[i].id = events[j].id => i = j

\* C8 amended: the poller publishes a fetched event only if it carries a
\* non-empty id that the dedup window reported new; type and repository are
\* not looked at.
C8_PublishesOnlyNewIds ==
    /\ [](/\ 0 \notin published
          /\ 0 \notin IdsOf(to_publish)
          /\ DistinctIds(to_publish))
    /\ [][published' # published =>
            /\ to_publish # << >>
            /\ published' = published \cup {Head(to_publish).id}]_vars

\* C8 witness: an event of unsupported type and an event without repository id
\* have been published.
C8_Witness ==
    /\ 2 \in published
    /\ 3 \in published

\* C9: an id is reported new exactly once for as long as it stays in the
\* window, within a page and across cycles, and the events to publish hold no id
\* twice.
C9_NewExactlyOnce ==
    /\ \A id \in EventIds :
          new_count[id] = IF id \in seen_event_ids THEN 1 ELSE 0
    /\ DistinctIds(to_publish)

\* C9 witness: in the second cycle a page held an id the window already knew
\* next to a new one.
C9_Witness ==
    /\ poll_count = 2
    /\ p_pc = "publishing"
    /\ cycle_suppressed >= 1
    /\ Cardinality(seen_event_ids) = 2

\* C10: the dedup window never holds more than max_seen_events ids.
C10_WindowWithinCapacity ==
    Cardinality(seen_event_ids) <= max_seen_events

\* The position of id in a list of ids without repetition (0: not in it).
PositionIn(ids, id) ==
    IF \E i \in DOMAIN ids : ids[i] = id
    THEN CHOOSE i \in DOMAIN ids : ids[i] = id
    ELSE 0

\* C11: the window evicts the oldest insertions. In a step of _dedupe_events the
\* ids of the window before it followed by the ids reported new are the
\* insertions from oldest to newest; no id of them is evicted while one that
\* comes before it is retained.
C11_EvictsOldest ==
    [][seen_event_ids' # seen_event_ids =>
        LET order == insert_order \o [i \in DOMAIN to_publish' |-> to_publish'[i].id]
        IN  \A e \in (seen_event_ids \cup IdsOf(to_publish')) \ seen_event_ids' :
                \A k \in seen_event_ids' :
                    PositionIn(order, k) > PositionIn(order, e)]_vars

\* C12: the credential index stays within 0..N-1 and changes only by
\* _rotate_token, to (index + 1) mod N: past the last index it is 0 again, and a
\* pool of one credential rotates to itself.
C12_RotationCircular ==
    /\ [](current_token_idx \in 0..(tokens_len - 1))
    /\ [][(p_pc = "fetching" /\ p_pc' = "idle" /\ last_status' = "403") =>
            /\ current_token_idx' = (current_token_idx + 1) % tokens_len
            /\ (current_token_idx = tokens_len - 1 => current_token_idx' = 0)
            /\ (current_token_idx < tokens_len - 1 => current_token_idx' = current_token_idx + 1)
            /\ (tokens_len = 1 => current_token_idx' = current_token_idx)]_vars
    /\ [][current_token_idx' # current_token_idx =>
            (p_pc = "fetching" /\ last_status' = "403")]_vars

\* C12 witness: two rate-limited cycles took the index of a pool of two past
\* the last credential and back to 0.
C12_Witness ==
    /\ tokens_len = 2
    /\ poll_count = 2
    /\ p_pc = "idle" /\ last_status = "403"
    /\ cycle_start.idx = 1
    /\ current_token_idx = 0

\* C12 witness for the pool of one: a rate-limited cycle rotated the only
\* credential to itself.
C12_WitnessSingle ==
    /\ tokens_len = 1
    /\ p_pc = "idle" /\ last_status = "403"
    /\ current_token_idx = 0

\* ------------------------------------------- processor: repository snapshots
\* A step that commits a flush to the store.
FlushCommits == pc = "flush" /\ f_pc = "commit" /\ f_pc' = "clear"

\* The store has just committed the flush whose buffers are still held.
JustCommitted == pc = "flush" /\ f_pc = "clear"

\* C13: a stored total_stars never decreases and no row disappears; a flush
\* sets the count of every staged repository already stored to the greater of
\* the stored and the incoming count.
C13_StarsNeverDecrease ==
    [][/\ \A id \in DOMAIN db_repos :
            /\ id \in DOMAIN db_repos'
            /\ db_repos'[id].total_stars >= db_repos[id].total_stars
       /\ FlushCommits =>
            \A id \in DOMAIN repos_buffer \cap DOMAIN db_repos :
                db_repos'[id].total_stars =
                    GREATEST(repos_buffer[id].total_stars, db_repos[id].total_stars)]_vars

\* C13 witness: a flush carrying a smaller star count for repository 1 has
\* committed, and the stored count is the greater one.
C13_Witness ==
    /\ JustCommitted
    /\ 1 \in DOMAIN repos_buffer /\ 1 \in DOMAIN db_repos
    /\ repos_buffer[1].total_stars < db_repos[1].total_stars
    /\ db_repos[1].total_stars = 200

\* C14: a stored language or description that is not null is never made null;
\* a flush whose incoming value is null leaves the stored value in place.
C14_NullNeverOverwrites ==
    [][/\ \A id \in DOMAIN db_repos :
            /\ db_repos[id].language # NoVal => db_repos'[id].language # NoVal
            /\ db_repos[id].description # NoVal => db_repos'[id].description # NoVal
       /\ FlushCommits =>
            \A id \in DOMAIN repos_buffer \cap DOMAIN db_repos :
                /\ repos_buffer[id].language = NoVal =>
                        db_repos'[id].language = db_repos[id].language
                /\ repos_buffer[id].description = NoVal =>
                        db_repos'[id].description = db_repos[id].description]_vars

\* C14 witness: a flush carrying neither language nor description for
\* repository 1 has committed, and the stored ones are still there.
C14_Witness ==
    /\ JustCommitted
    /\ 1 \in DOMAIN repos_buffer /\ 1 \in DOMAIN db_repos
    /\ repos_buffer[1].language = NoVal /\ repos_buffer[1].description = NoVal
    /\ db_repos[1].language = "Go" /\ db_repos[1].description = "d1"

\* C15 as stated: a stored language or description that is not null is never
\* replaced, not by another value that is not null either.
C15_FirstObservationKept ==
    [][\A id \in DOMAIN db_repos :
            /\ db_repos[id].language # NoVal => db_repos'[id].language = db_repos[id].language
            /\ db_repos[id].description # NoVal =>
                    db_repos'[id].description = db_repos[id].description]_vars

\* C15 amended: a flush stores the incoming language (description) when it is
\* not null, replacing a stored one, and keeps the stored one otherwise; the
\* stored value is the latest observation that was not null.
C15_LatestObservationKept ==
    [][FlushCommits =>
        \A id \in DOMAIN repos_buffer \cap DOMAIN db_repos :
            /\ db_repos'[id].language =
                    IF repos_buffer[id].language # NoVal
                    THEN repos_buffer[id].language ELSE db_repos[id].language
            /\ db_repos'[id].description =
                    IF repos_buffer[id].description # NoVal
                    THEN repos_buffer[id].description ELSE db_repos[id].description]_vars

\* C15 witness: repository 1 was stored with language "Go" and description
\* "d1" (one event carries both), and a later flush has replaced the language.
C15_Witness ==
    /\ JustCommitted
    /\ 1 \in DOMAIN db_repos
    /\ db_repos[1].description = "d1"
    /\ db_repos[1].language = "Rust"
    /\ repos_buffer[1].language = "Rust"

\* The number of rows of the metrics table that came from offset o.
RowsOf(o) == Cardinality({i \in DOMAIN db_metrics : db_metrics[i].offset = o})

C17_MetricsAppendOnly ==
    /\ []((pc \in {"pull", "commit_offsets"}) =>
            /\ Len(db_metrics) + Len(events_buffer) = Cardinality(accepted)
            /\ (events_buffer = << >> =>
                    /\ Len(db_metrics) = Cardinality(accepted)
                    /\ \A o \in accepted : RowsOf(o) = 1))
    /\ [][/\ Len(db_metrics') >= Len(db_metrics)
          /\ SubSeq(db_metrics', 1, Len(db_metrics)) = db_metrics]_vars

\* C17 witness: four messages consumed, three of them accepted, two flushes
\* (one mid-batch, one at the end of the pull), three rows.
C17_Witness ==
    /\ pc = "commit_offsets"
    /\ consumed = 4
    /\ Cardinality(accepted) = 3
    /\ Len(db_metrics) = 3
    /\ events_buffer = << >>

\* An event _process_event is to reject: its type is not supported, or its
\* repository id or name is missing.
Rejected(event) ==
    /\ event.shape = "ok"
    /\ \/ event.type \notin
            {"WatchEvent", "ForkEvent", "PushEvent", "IssuesEvent", "PullRequestEvent",
             "CreateEvent", "ReleaseEvent", "IssueCommentEvent"}
       \/ event.repo_id = 0
       \/ event.repo_name = ""

\* C18: consuming an event of unsupported type or without repository id or
\* name raises nothing and changes neither the buffers nor the cache nor the
\* store; the loop goes on.
C18_RejectedWithoutEffect ==
    [][(consumed' = consumed + 1 /\ Rejected(topic'[consumed'])) =>
            /\ events_buffer' = events_buffer
            /\ repos_buffer' = repos_buffer
            /\ repo_stars_cache' = repo_stars_cache
            /\ events_processed' = events_processed
            /\ accepted' = accepted
            /\ db_repos' = db_repos /\ db_metrics' = db_metrics
            /\ txn_repos' = txn_repos /\ txn_metrics' = txn_metrics
            /\ exc' = exc /\ exc = "none"
            /\ pc' = "pull"]_vars

\* C18 witness: an event of unsupported type, one without repository id and
\* one without repository name have been consumed, and nothing is buffered,
\* cached or stored.
C18_Witness ==
    /\ pc = "pull"
    /\ consumed = 3
    /\ \E i, j, k \in DOMAIN topic :
            /\ topic[i].type = "GollumEvent"
            /\ topic[j].shape = "ok" /\ topic[j].type = "WatchEvent" /\ topic[j].repo_id = 0
            /\ topic[k].shape = "ok" /\ topic[k].repo_id = 1 /\ topic[k].repo_name = ""
    /\ events_buffer = << >>
    /\ repos_buffer = EmptyDict
    /\ repo_stars_cache = EmptyDict
    /\ db_metrics = << >>

\* C19: in a pull the buffer never stays at batch_size: the message that
\* fills it starts a flush of exactly batch_size records before the next
\* message is consumed; when the pull ends with records buffered, they are
\* flushed, fewer than batch_size as they are, before the offsets are committed.
C19_FlushTriggers ==
    /\ [](/\ pc = "pull" => Len(events_buffer) < batch_size
          /\ f_ctx = "mid" => Len(events_buffer) = batch_size
          /\ f_ctx = "end" => Len(events_buffer) \in 1..(batch_size - 1)
          /\ pc = "commit_offsets" => events_buffer = << >>)
    /\ [][/\ (pc = "pull" /\ Len(events_buffer') >= batch_size) =>
                (pc' = "flush" /\ f_ctx' = "mid" /\ f_pc' = "upsert")
          /\ consumed' # consumed => Len(events_buffer) < batch_size
          /\ (pc = "pull" /\ events_buffer # << >> /\ consumed' = consumed
                /\ pc' \notin {"pull", "final"}) =>
                (pc' = "flush" /\ f_ctx' = "end" /\ f_pc' = "upsert")]_vars

\* C19 witness: a pull whose first batch_size records were flushed mid-batch
\* is flushing the one record left at its end.
C19_Witness ==
    /\ pc = "flush" /\ f_ctx = "end"
    /\ Len(events_buffer) = 1
    /\ Len(db_metrics) = batch_size
    /\ committed_offset = 0

\* C20: consuming a malformed event (a null "repo" or "payload" object) raises
\* nothing out of the loop: the processor goes on consuming.
C20_MalformedNeverAborts ==
    [][(consumed' = consumed + 1 /\ topic'[consumed'].shape # "ok") =>
            /\ exc' = "none"
            /\ pc' \in {"pull", "flush"}]_vars

\* ------------------------------------------------- velocity score: claims
\* C28 as stated: for one event type, the score of the smaller star count is
\* strictly greater.
C28_StrictlyDecreasing ==
    (/\ score_results # << >>
     /\ score_args[1].type = score_args[2].type
     /\ score_args[1].stars < score_args[2].stars) =>
        score_results[1] > score_results[2]

\* C28 amended: for one event type the score never increases with the star
\* count; it is the same for all counts up to the floor of 10 and strictly
\* smaller for a greater count above the floor.
C28_DecreasingAboveFloor ==
    (/\ score_results # << >>
     /\ score_args[1].type = score_args[2].type
     /\ score_args[1].stars < score_args[2].stars) =>
        /\ score_results[1] >= score_results[2]
        /\ score_args[2].stars <= 10 => score_results[1] = score_results[2]
        /\ score_args[2].stars > 10 => score_results[1] > score_results[2]

\* C28 witness: star counts 0 and 5 of a WatchEvent score the same, 4.1703.
C28_Witness ==
    /\ score_results = << 41703, 41703 >>
    /\ score_args[1] = [type |-> "WatchEvent", stars |-> 0]
    /\ score_args[2] = [type |-> "WatchEvent", stars |-> 5]

\* C29: for one star count, WatchEvent scores above ForkEvent and ForkEvent
\* above PushEvent; a type absent from the weight table scores as weight 0.1 does
\* (IssueCommentEvent's), strictly below WatchEvent.
C29_WeightOrdering ==
    (score_results # << >> /\ score_args[1].stars = score_args[2].stars) =>
        LET t1 == score_args[1].type
            t2 == score_args[2].type
        IN  /\ (t1 = "WatchEvent" /\ t2 = "ForkEvent") => score_results[1] > score_results[2]
            /\ (t1 = "ForkEvent" /\ t2 = "PushEvent") => score_results[1] > score_results[2]
            /\ (t1 = "WatchEvent" /\ t2 = "PushEvent") => score_results[1] > score_results[2]
            /\ (t1 = "GollumEvent" /\ t2 = "IssueCommentEvent") =>
                    score_results[1] = score_results[2]
            /\ (t1 = "WatchEvent" /\ t2 = "GollumEvent") =>
                    /\ score_results[1] > score_results[2]
                    /\ score_results[1] \in {10 * score_results[2] + d : d \in -5..5}

\* C29 witness: WatchEvent and ForkEvent of a repository of 1000 stars score
\* 1.4474 and 1.1580.
C29_Witness ==
    /\ score_args[1] = [type |-> "WatchEvent", stars |-> 1000]
    /\ score_args[2] = [type |-> "ForkEvent", stars |-> 1000]
    /\ score_results = << 14474, 11580 >>

\* ------------------------------------------------- _process_event: claims
\* The stargazers_count the processor observed last for the repository up to
\* message i: that of the latest message of a supported type with the repository's
\* id, a name and a non-zero count; 0 when there is none.
RECURSIVE ObservedStars(_, _)
ObservedStars(i, repo_id) ==
    IF i = 0 THEN 0
    ELSE IF /\ topic[i].type \in SUPPORTED_EVENTS
            /\ topic[i].repo_id = repo_id
            /\ topic[i].repo_name # ""
            /\ topic[i].stars # 0
         THEN topic[i].stars
         ELSE ObservedStars(i - 1, repo_id)

\* C23: every record, buffered or stored, carries the score of its type at the
\* star count observed last for its repository up to and including its own
\* event, 0 when none was observed; a message without a count changes nothing,
\* and the cache holds the count observed last.
C23_ScoreFromCachedStars ==
    /\ \A i \in DOMAIN events_buffer :
          events_buffer[i].velocity_score =
              calculate_velocity_score(events_buffer[i].event_type,
                  ObservedStars(events_buffer[i].offset, events_buffer[i].repo_id))
    /\ \A i \in DOMAIN db_metrics :
          db_metrics[i].velocity_score =
              calculate_velocity_score(db_metrics[i].event_type,
                  ObservedStars(db_metrics[i].offset, db_metrics[i].repo_id))
    /\ \A id \in 1..2 :
          (IF id \in DOMAIN repo_stars_cache THEN repo_stars_cache[id] ELSE 0) =
              ObservedStars(consumed, id)

\* C23 witness: the PushEvent without metadata that followed the WatchEvent
\* carrying 200 stars and an event of repository 2 is buffered with the score
\* of 200 stars, 0.5657.
C23_Witness ==
    /\ Len(events_buffer) = 1
    /\ events_buffer[1].offset = 3
    /\ topic[3].type = "PushEvent" /\ topic[3].stars = 0
    /\ topic[2].repo_id = 2
    /\ topic[1].type = "WatchEvent" /\ topic[1].stars = 200 /\ topic[1].repo_id = 1
    /\ events_buffer[1].velocity_score = 5657

\* Whether a "created_at" value is missing, empty, malformed or no string.
BadCreatedAt(created_at) ==
    created_at \in {NoVal, "", "not-a-date", "#1705314600"}

\* C24: an event of a supported type with repository id and name is not
\* rejected whatever its created_at; when that is missing, empty, malformed or
\* no string the record's timestamp is the current time, else the time it names.
C24_TimestampNeverRejects ==
    (/\ u_result # "pending"
     /\ u_event.type \in SUPPORTED_EVENTS
     /\ u_event.repo_id # 0
     /\ u_event.repo_name # "") =>
        /\ u_result = "record"
        /\ Len(u_record) = 1
        /\ BadCreatedAt(u_event.created_at) => u_record[1].timestamp = "now"
        /\ ~BadCreatedAt(u_event.created_at) =>
                u_record[1].timestamp = "2024-01-15T10:30:00+00:00"

\* C24 witness: a ForkEvent whose created_at is no timestamp was returned as a
\* record stamped with the current time.
C24_Witness ==
    /\ u_result = "record"
    /\ u_event.type = "ForkEvent"
    /\ u_event.created_at = "not-a-date"
    /\ u_record[1].timestamp = "now"

\* C25: the stars_delta of a returned record is 1 when the event is a
\* WatchEvent and 0 for every other supported type.
C25_StarsDeltaIffWatch ==
    u_result = "record" =>
        /\ u_record[1].stars_delta \in {0, 1}
        /\ u_record[1].stars_delta = 1 <=> u_event.type = "WatchEvent"

\* C25 witness: a ForkEvent was returned as a record with stars_delta 0.
C25_Witness ==
    /\ u_result = "record"
    /\ u_event.type = "ForkEvent"
    /\ u_record[1].stars_delta = 0

\* One event has been processed and flushed, and nothing else has happened.
FirstEventFlushed ==
    /\ consumed = 1
    /\ accepted = {1}
    /\ exc = "none"
    /\ \/ pc = "flush" /\ f_pc = "clear"
       \/ pc \in {"pull", "commit_offsets"} /\ events_buffer = << >>

\* C30: after one supported event of an unseen repository carrying
\* stargazers_count s has been processed and flushed, the store holds one
\* snapshot row, of that repository with total_stars s, and one metric row, whose
\* score is that of the event's type at max(s, 10) stars.
C30_EndToEnd ==
    FirstEventFlushed =>
        /\ DOMAIN db_repos = {topic[1].repo_id}
        /\ db_repos[topic[1].repo_id].total_stars = topic[1].stars
        /\ Len(db_metrics) = 1
        /\ db_metrics[1].repo_id = topic[1].repo_id
        /\ db_metrics[1].event_type = topic[1].type
        /\ db_metrics[1].velocity_score =
              calculate_velocity_score(topic[1].type,
                  IF topic[1].stars > 10 THEN topic[1].stars ELSE 10)

\* C30 witness: the WatchEvent of repository 2 with 5 stars was flushed; the
\* rows hold total_stars 5 and the score at 10 stars, 4.1703.
C30_Witness ==
    /\ FirstEventFlushed
    /\ topic[1].type = "WatchEvent" /\ topic[1].stars = 5
    /\ db_repos[2].total_stars = 5
    /\ db_metrics[1].velocity_score = 41703
    /\ db_metrics[1].stars_delta = 1

\* ------------------------------------------------ processor: cancellation
\* The log shows that the final flush failed.
FinalFlushFailureLogged ==
    \E i \in DOMAIN logged : logged[i] = "Error during final flush"

\* C21: after a KeyboardInterrupt the finally block starts one flush of what is
\* buffered before anything is closed; whether that flush returns or raises,
\* the cleanup comes next and the process ends with status 0; and once the
\* cleanup is reached every accepted record is stored, or else the failure of
\* the final flush is in the log and the records are still in the buffer.
C21_FinalFlushOnCancel ==
    /\ []((exc = "KeyboardInterrupt" /\ pc \in {"close", "exited"}) =>
            /\ AllAcceptedStored \/ FinalFlushFailureLogged
            /\ events_buffer # << >> => FinalFlushFailureLogged
            /\ pc = "exited" => exit_code = 0)
    /\ [][exc = "KeyboardInterrupt" =>
            /\ (pc = "final" /\ events_buffer # << >>) =>
                    (pc' = "flush" /\ f_ctx' = "final" /\ f_pc' = "upsert")
            /\ (pc = "flush" /\ pc' # "flush") => (f_ctx = "final" /\ pc' = "close")
            /\ (pc = "flush" /\ ~FinalFlushFailureLogged /\ FinalFlushFailureLogged') =>
                    (pc' = "close" /\ events_buffer' = events_buffer)
            /\ pc = "close" => pc' = "exited"]_vars

\* C21 witness: the loop was cancelled with records buffered, the final flush
\* failed and was logged, and the process closed both and ended with status 0.
C21_Witness ==
    /\ exc = "KeyboardInterrupt"
    /\ pc = "exited"
    /\ exit_code = 0
    /\ FinalFlushFailureLogged
    /\ events_buffer # << >>

\* The loop was cancelled with records buffered, and the final flush stored them.
C21_WitnessFlushed ==
    /\ exc = "KeyboardInterrupt"
    /\ pc = "exited"
    /\ ~FinalFlushFailureLogged
    /\ last_flush.events # << >>
    /\ committed_offset = 0
    /\ AllAcceptedStored

\* ---------------------------------------------- poller: messages, shutdown
\* The ids of the events whose message no flush has waited for yet.
UnflushedIds == {unflushed[i].value.id : i \in DOMAIN unflushed}

\* C22: run's loop is left only through the flush and the close of the
\* producer: the producer is closed only in the step that flushes what it
\* holds, and once the process has ended the producer is closed and every
\* message sent has been flushed.
C22_FlushedThenClosed ==
    /\ [](p_pc = "exited" =>
            /\ producer = "closed"
            /\ unflushed = << >>
            /\ published \subseteq flushed)
    /\ [](producer = "closed" => p_pc = "exited")
    /\ [][producer' # producer =>
            /\ producer = "open" /\ producer' = "closed"
            /\ p_pc = "closing"
            /\ unflushed' = << >>
            /\ flushed' = flushed \cup UnflushedIds]_vars

\* C22 witness: the last cycle ended in a queue error after messages had been
\* sent, so no flush had waited for them; the process has ended with the
\* producer closed and every message flushed.
C22_Witness ==
    /\ p_pc = "exited"
    /\ last_status = "KafkaError"
    /\ cycle_published > 0
    /\ producer = "closed"
    /\ published # {}
    /\ published \subseteq flushed
    /\ unflushed = << >>

\* C26: every message is sent by the publish loop for the next new event, one
\* message per event: its key is the repository id as a string ("unknown" for an
\* event without one) and its value the event with ingested_at added. The loop
\* drops an event only when a queue error ends the cycle, and the cycle ends
\* normally only with every new event sent and flushed.
C26_OneKeyedMessagePerEvent ==
    [][/\ (unflushed' # unflushed /\ unflushed' # << >>) =>
            /\ p_pc = "publishing" /\ to_publish # << >>
            /\ to_publish' = Tail(to_publish)
            /\ Len(unflushed') = Len(unflushed) + 1
            /\ SubSeq(unflushed', 1, Len(unflushed)) = unflushed
            /\ unflushed'[Len(unflushed')].key =
                  (CASE Head(to_publish).repo_id = 0 -> "unknown"
                     [] Head(to_publish).repo_id = 1 -> "1")
            /\ unflushed'[Len(unflushed')].value =
                  [id |-> Head(to_publish).id, type |-> Head(to_publish).type,
                   repo_id |-> Head(to_publish).repo_id, ingested_at |-> "utcnow"]
       /\ (p_pc = "publishing" /\ to_publish' # to_publish) =>
            \/ Len(unflushed') = Len(unflushed) + 1
            \/ last_status' = "KafkaError" /\ unflushed' = unflushed
       /\ (p_pc = "publishing" /\ p_pc' = "idle" /\ last_status' = "200") =>
            /\ to_publish = << >>
            /\ unflushed' = << >>
            /\ events_count' = cycle_published
            /\ UnflushedIds \subseteq flushed']_vars

\* C26 witness: the two new events of a page have been sent, one of repository
\* 1 and one without a repository id; their messages are keyed "1" and "unknown".
C26_Witness ==
    /\ p_pc = "publishing"
    /\ to_publish = << >>
    /\ cycle_published = 2
    /\ Len(unflushed) = 2
    /\ unflushed[1].key = "1" /\ unflushed[1].value.id = 1
    /\ unflushed[2].key = "unknown" /\ unflushed[2].value.id = 3
    /\ unflushed[2].value.ingested_at = "utcnow"

\* C27: with no credential or an empty broker address the process ends with
\* status 1 straight from its start: no request was sent, no producer was
\* opened and nothing was published; and only such a process, or one whose
\* producer could not connect, ends without having opened the producer.
C27_StartupFailsFast ==
    /\ [][(p_pc = "starting" /\ (tokens_len = 0 \/ kafka_bootstrap_servers = "")) =>
            /\ p_pc' = "exited"
            /\ p_exit_code' = 1
            /\ producer' = "none"
            /\ poll_count' = 0 /\ attempt' = 0
            /\ published' = {}]_vars
    /\ []((tokens_len = 0 \/ kafka_bootstrap_servers = "") =>
            /\ p_pc \in {"starting", "exited"}
            /\ producer = "none"
            /\ poll_count = 0 /\ attempt = 0
            /\ p_pc = "exited" => (p_exit_code = 1 /\ p_exc = "ValueError"))

\* C27 witness: credentials are configured but the broker address is empty; the
\* process has ended with status 1 and never opened a producer.
C27_Witness ==
    /\ tokens_len > 0
    /\ kafka_bootstrap_servers = ""
    /\ p_pc = "exited"
    /\ p_exit_code = 1
    /\ producer = "none"
    /\ poll_count = 0

\* No credential is configured; the process has ended with status 1.
C27_WitnessNoTokens ==
    /\ tokens_len = 0
    /\ p_pc = "exited"
    /\ p_exit_code = 1
    /\ producer = "none"

\* ------------------------------------------------- processor: later claims
\* C31: the description of every snapshot staged in repos_buffer or stored in
\* the repositories table is null or at most 500 characters long.
C31_DescriptionTruncated ==
    /\ \A id \in DOMAIN repos_buffer :
          \/ repos_buffer[id].description = NoVal
          \/ Len(repos_buffer[id].description) <= DescriptionLimit
    /\ \A id \in DOMAIN db_repos :
          \/ db_repos[id].description = NoVal
          \/ Len(db_repos[id].description) <= DescriptionLimit

\* The description of 501 characters is stored as it came.
C31_StoredUncut ==
    /\ 2 \in DOMAIN db_repos
    /\ Len(db_repos[2].description) = DescriptionLimit + 1

\* ------------------------------------------------- rate limiting: claims
\* The requests before the i-th that were admitted (all of them, or only those
\* to a path that is not exempt) later than cutoff.
AdmittedBefore(i, cutoff, all) ==
    Cardinality({j \in 1..(i - 1) :
        /\ rl_log[j].status = 200
        /\ rl_log[j].ts > cutoff
        /\ all \/ ~rl_log[j].exempt})

\* The requests admitted later than lo and not later than hi.
AdmittedIn(lo, hi, all) ==
    Cardinality({j \in DOMAIN rl_log :
        /\ rl_log[j].status = 200
        /\ rl_log[j].ts > lo /\ rl_log[j].ts <= hi
        /\ all \/ ~rl_log[j].exempt})

\* C32 as stated: any request through dispatch is rejected with 429 exactly
\* when requests_per_second requests were already admitted in the last second
\* or requests_per_minute in the last 60 seconds, and no window of a second or
\* of 60 seconds holds more admitted requests than its limit.
C32_RejectedExactlyAtLimit ==
    /\ \A i \in DOMAIN rl_log :
          rl_log[i].status = 429 <=>
              \/ AdmittedBefore(i, rl_log[i].ts - TicksPerSecond, TRUE) >= requests_per_second
              \/ AdmittedBefore(i, rl_log[i].ts - 60 * TicksPerSecond, TRUE)
                    >= requests_per_minute
    /\ \A t \in 0..rl_now :
          /\ AdmittedIn(t - TicksPerSecond, t, TRUE) <= requests_per_second
          /\ AdmittedIn(t - 60 * TicksPerSecond, t, TRUE) <= requests_per_minute

\* C32 amended: a request to a path that is not exempt is rejected with 429
\* exactly when requests_per_second such requests were already admitted in the
\* last second or requests_per_minute in the last 60 seconds (windows open at
\* the old end), and no such window holds more admitted requests of that kind
\* than its limit; a request to an exempt path is always passed on.
C32_LimitedPathsRejectedAtLimit ==
    /\ \A i \in DOMAIN rl_log :
          IF rl_log[i].exempt
          THEN rl_log[i].status = 200
          ELSE rl_log[i].status = 429 <=>
                 \/ AdmittedBefore(i, rl_log[i].ts - TicksPerSecond, FALSE)
                       >= requests_per_second
                 \/ AdmittedBefore(i, rl_log[i].ts - 60 * TicksPerSecond, FALSE)
                       >= requests_per_minute
    /\ \A t \in 0..rl_now :
          /\ AdmittedIn(t - TicksPerSecond, t, FALSE) <= requests_per_second
          /\ AdmittedIn(t - 60 * TicksPerSecond, t, FALSE) <= requests_per_minute

\* C32 witness: after a cleanup, the fourth request was rejected on the minute
\* limit alone, and a request to an exempt path at the same time was passed on.
C32_Witness ==
    /\ Len(rl_log) = 5
    /\ rl_last_cleanup > 0
    /\ ~rl_log[4].exempt /\ rl_log[4].status = 429
    /\ AdmittedBefore(4, rl_log[4].ts - TicksPerSecond, FALSE) < requests_per_second
    /\ rl_log[5].exempt /\ rl_log[5].status = 200 /\ rl_log[5].ts = rl_log[4].ts

\* C34: within one process run the store holds at most one row for each
\* record buffered, also when the run was cancelled inside a flush.
C34_InsertedAtMostOnce ==
    \A o \in accepted : RowsOf(o) <= 1

\* The run was cancelled inside a flush, after the insert; the final flush
\* inserted the buffered records again and the store holds each of them twice.
C34_Duplicated ==
    /\ exc = "KeyboardInterrupt"
    /\ pc = "exited"
    /\ accepted # {}
    /\ \A o \in accepted : RowsOf(o) = 2

\* C35: when a flush has committed, the stored total_stars of a repository is
\* at least the stargazers_count of every event of that repository in the
\* flushed batch.
C35_BatchMetadataKept ==
    JustCommitted =>
        \A i \in DOMAIN events_buffer :
            /\ events_buffer[i].repo_id \in DOMAIN db_repos
            /\ db_repos[events_buffer[i].repo_id].total_stars
                  >= topic[events_buffer[i].offset].stars

\* The first batch held the WatchEvent of repository 1 with 200 stars and then
\* the PushEvent without metadata; the flush stored the repository with 0 stars
\* and no language.
C35_MetadataLost ==
    /\ JustCommitted
    /\ consumed = 2
    /\ Len(events_buffer) = 2
    /\ topic[1].stars = 200 /\ topic[1].language = "Go"
    /\ topic[2].type = "PushEvent" /\ topic[2].repo_id = 1
    /\ db_repos[1].total_stars = 0
    /\ db_repos[1].language = NoVal

\* C36: every repository staged in repos_buffer has a record in events_buffer
\* (and the other way round), so the end-of-pull flush, which looks at
\* events_buffer only, leaves nothing staged: when process_batch gets to the
\* offsets both buffers are empty.
C36_StagedHaveRecords ==
    /\ DOMAIN repos_buffer = {events_buffer[i].repo_id : i \in DOMAIN events_buffer}
    /\ pc = "commit_offsets" => (repos_buffer = EmptyDict /\ events_buffer = << >>)

\* C36 witness: between two iterations, after an accepted event of repository 2
\* and a rejected event naming repository 1, repository 2 alone is staged and
\* has its record.
C36_Witness ==
    /\ pc = "pull"
    /\ consumed = 2
    /\ topic[2].type = "GollumEvent" /\ topic[2].repo_id = 1
    /\ DOMAIN repos_buffer = {2}
    /\ Len(events_buffer) = 1
    /\ events_buffer[1].repo_id = 2

\* C37: when process_batch returns normally the offsets of all messages
\* consumed so far are committed.
C37_OffsetsCommittedOnReturn ==
    [][(pc = "commit_offsets" /\ pc' = "pull") => committed_offset' = consumed]_vars

\* The messages consumed were all rejected, process_batch has returned twice,
\* and no offset is committed.
C37_RejectedUncommitted ==
    /\ pc = "commit_offsets"
    /\ consumed = 2
    /\ accepted = {}
    /\ events_processed = 0
    /\ committed_offset = 0

\* --------------------------------------------------- poller: later claims
\* C33: between cycles, and once the loop has been left, every id in the dedup
\* window is the id of an event that was sent to the topic.
C33_SeenWasSent ==
    p_pc \in {"idle", "closing", "exited"} => seen_event_ids \subseteq published

\* A cycle ended in a queue error with an id in the window whose event was never
\* sent, and in the next cycle the upstream served nothing that was new.
C33_Suppressed ==
    /\ poll_count = 2
    /\ p_pc = "idle"
    /\ last_status = "200"
    /\ events_count = 0
    /\ cycle_suppressed > 0
    /\ seen_event_ids \ published # {}

\* ----------------------------------------------------- websocket: claims
\* C38: at most one broadcast loop task is alive.
C38_AtMostOneLoop ==
    Cardinality(AliveLoops) <= 1

\* The last client left while the loop slept and another client connected: the
\* old task and the new one are both alive, and the old one has found the loop
\* condition true again.
C38_TwoLoops ==
    /\ Len(ws_loops) = 2
    /\ ws_loops[1] = "body"
    /\ ws_loops[2] # "done"
    /\ ws_clients[1] = "closed"

\* C39: with a connection active and _running set, a broadcast loop is alive.
C39_LoopWhileConnected ==
    (active_connections # {} /\ ws_running) => AliveLoops # {}

\* The broadcast discarded the only connection, which had broken, the loop
\* returned with _running still set, and the client that connected next is
\* served by no loop.
C39_NoLoop ==
    /\ ws_clients[1] = "dead"
    /\ ws_clients[2] = "open"
    /\ active_connections = {2}
    /\ ws_running
    /\ Len(ws_loops) = 1
    /\ ws_loops[1] = "done"

====
